---- MODULE Spec2Model ----
(***************************************************************************)
(* TrackerLocation (src/src/tracker_location.cpp): the publish scheduler   *)
(* of the tracker.  The module models                                       *)
(*   - the configuration transaction (enter/exit callbacks),                *)
(*   - the trigger set and its mutex (triggerLocPub, buildPublish),         *)
(*   - evaluatePublish, the publish decision function,                      *)
(*   - loop(), split at the points where another context can interleave,    *)
(*   - location_publish / location_publish_cb, the one-slot retry engine:   *)
(*     location_publish as one step, the handler in two (the callbacks,     *)
(*     then the list cleared), the stale branch of loop() call by call,     *)
(*     and both functions statement by statement under the cloud service    *)
(*     lock in SpecSlot,                                                    *)
(*   - buildPublish and its enrichment blocks, the sleep hooks.             *)
(*                                                                         *)
(* uint32_t values are kept as their two's-complement reading (a value     *)
(* 2^32 - k is the integer -k); every magnitude in the model stays far     *)
(* below 2^31, so +, - on these integers are the C operations modulo 2^32  *)
(* and only the comparisons need the unsigned order (U32Lt and friends).   *)
(*                                                                         *)
(* Time is System.uptime() in seconds and millis() is 1000 times it.       *)
(* loop() samples when LoopSampleRate (1000 ms) has passed since the last  *)
(* sample, or at once after onWake; uptime advances between two samples    *)
(* and inside buildPublish.                                                *)
(***************************************************************************)
EXTENDS Integers, Sequences, FiniteSets, TLC

(***************************************************************************)
(* Program constants                                                       *)
(***************************************************************************)
LockTimeoutSec == 10
\* "static constexpr system_tick_t LoopSampleRate = 1000"
LoopSampleRate == 1000

(***************************************************************************)
(* Bounds of the model                                                     *)
(***************************************************************************)
\* last second at which loop() still starts a tick (main specification)
MaxTime == 3
\* last tick of the scheduling specification
SchedMaxTime == 16
\* TrackerSleep::getConfigConnectingTime(), seconds
ConnectingTime == 2
\* sends the transport holds unacknowledged at once
MaxInFlight == 2
\* completion callbacks the application registers over a run
MaxCallbacks == 1
\* concurrent callers of triggerLocPub besides loop()
NumCallers == 2
\* last tick of the specification of immediate requests
ImmMaxTime == 4
\* last tick of the specification of completion callbacks
CbMaxTime == 2
\* most seconds of uptime between two samples of loop()
LoopMaxStep == 2
\* most seconds of uptime that pass inside buildPublish
BuildMaxDelay == 1
\* most setter calls the configuration layer makes over a run
ConfigMaxSets == 3
\* largest uptime in the specification with the sleep hooks
SleepMaxTime == 2
\* largest uptime in the specification of the retry buffer
SlotMaxTime == 3
\* largest uptime in the specification of the wake cycles
WakeMaxTime == 4
\* largest uptime at which onSleepPrepare is called
PrepMaxNow == 9
\* largest byte budget handed to buildWpsInfo
WpsMaxSize == 210
\* most access points in range of a scan
WpsMaxScan == 4
\* capacity of the writer's buffer in the enrichment specification
EnrichBufferSize == 8
\* largest fill level of the writer when the enrichment starts
EnrichMaxData == 9
\* bytes the cloud service reserves for the end of the command
EnrichEndSize == 2
\* most bytes the tower block puts out
EnrichMaxTower == 7
\* largest uptime handed to evaluatePublish in the evaluation specification
EvalMaxNow == 70
\* largest early-wake lead handed to evaluatePublish
EvalMaxLead == 61

\* sizeof(",{\"wps\":[]}") - 1
ObjectEstimateWpsHeaderSize == 11
\* sizeof("{\"bssid\":\"00:11:22:33:44:55\",\"ch\":99,\"str\":-999},") - 1
ObjectEstimateWpsDataSize == 49
\* access points wifi_cb keeps from one scan; the constant is declared
\* outside src/, the model takes a small value below WpsMaxScan
TrackerLocationMaxWpsCollect == 3

\* "miscellaneous time spent by system entering and exiting sleep", seconds
MiscSleepWakeSec == 3

\* -EINVAL, returned by exit_location_config_cb, is -22
EINVAL == 22

\* a null char pointer (no retry buffer, no request text, no report yet)
NoPayload == [t |-> -1, trig |-> <<>>]

Callers == 1..NumCallers

\* Names passed to triggerLocPub by callers outside loop(); "user" is what
\* get_loc_cb requests.
CallerNames == {"user", "motion"}

GnssStates == {"DISABLED", "OFF", "ERROR", "ON_UNLOCKED",
               "ON_LOCKED_UNSTABLE", "ON_LOCKED_STABLE"}

\* Interval values written by the configuration layer (ConfigInt range 0..86400)
IntervalValues == {0, 100, 500}

(***************************************************************************)
(* uint32_t comparisons on the two's-complement reading                    *)
(***************************************************************************)
U32Lt(a, b) == IF (a >= 0) = (b >= 0) THEN a < b ELSE a >= 0
U32Ge(a, b) == ~U32Lt(a, b)
U32Gt(a, b) == U32Lt(b, a)

SeqToSet(s) == {s[i] : i \in 1..Len(s)}
NoDup(s) == \A i, j \in 1..Len(s) : i # j => s[i] # s[j]

VARIABLES
    \* environment
    now,                        \* System.uptime()
    connected,                  \* last result of Particle.connected()
    link,                       \* "up": connected() is always true; "flaky": any
    radius,                     \* LocationService radius threshold, 0 = disabled
    sleepDisabled,              \* _sleep.isSleepDisabled()
    fullWakeCycle,              \* _sleep.isFullWakeCycle()
    \* configuration
    _config_state,
    _config_state_shadow,
    _config_state_loop_safe,
    txn,                        \* open configuration transaction
    \* scheduling
    _last_location_publish_sec,
    _monotonic_publish_sec,
    _newMonotonic,
    _first_publish,
    _pending_first_publish,
    _gnssStartedSec,
    _nextEarlyWake,
    _firstLockSec,
    _lastGnssState,
    \* trigger set
    _pending_triggers,
    _pending_immediate,
    mutex,                      \* set of contexts holding TrackerLocation::mutex
    callers,                    \* callers inside triggerLocPub
    \* retry engine
    location_publish_retry_str,
    writerBuf,                  \* cloud_service.writer().buffer()
    inflight,                   \* sends waiting for their completion
    locPubCallbacks,
    pendingLocPubCallbacks,
    \* loop() locals that live across its steps
    pc,
    publishReason,
    locationStatus,
    \* sleep hooks
    _earlyWake,                 \* lead learned in the last full wake cycle
    wakeReq,                    \* arguments of _sleep.wakeAtSeconds, in call order
    gnssReq,                    \* last call made to the location service
    _loopSampleTick,            \* millis() of the last sample of loop(), 0 = run at once
    \* WiFi enrichment
    wpsList,                    \* access points collected by wifi_cb
    wpsIn,                      \* byte budget handed to buildWpsInfo, points in range
    wpsOut,                     \* what buildWpsInfo put into the writer
    enrich,                     \* byte budgets of buildPublish's enrichment blocks
    \* location_publish and location_publish_cb run statement by statement
    cloudLock,                  \* context holding the cloud service lock, or "none"
    cb,                         \* the completion handler's position and arguments
    pubCall,                    \* location_publish's send result and return point
    issueLeft,                  \* callbacks the stale branch has still to invoke
    \* observation (history) variables
    obs

cfgVars   == <<_config_state, _config_state_shadow, _config_state_loop_safe, txn>>
envVars   == <<now, connected, link, radius, sleepDisabled, fullWakeCycle>>
schedVars == <<_last_location_publish_sec, _monotonic_publish_sec, _newMonotonic,
               _first_publish, _pending_first_publish, _gnssStartedSec,
               _nextEarlyWake, _firstLockSec, _lastGnssState>>
trigVars  == <<_pending_triggers, _pending_immediate, mutex, callers>>
retryVars == <<location_publish_retry_str, writerBuf, inflight,
               locPubCallbacks, pendingLocPubCallbacks>>
loopVars  == <<pc, publishReason, locationStatus>>
wpsVars   == <<wpsList, wpsIn, wpsOut, enrich>>
sleepVars == <<_earlyWake, wakeReq, gnssReq, _loopSampleTick>>
slotVars  == <<cloudLock, cb, pubCall, issueLeft>>
vars == <<cfgVars, envVars, schedVars, trigVars, retryVars, loopVars, wpsVars,
          sleepVars, slotVars, obs>>

(***************************************************************************)
(* evaluatePublish                                                         *)
(***************************************************************************)
EvaluationResults(r, n, l) == [reason |-> r, networkNeeded |-> n, lockWait |-> l]

\* "auto maxNetwork = max; if (maxNetwork > lead) maxNetwork -= lead;"
LeadAdjusted(v, lead) == IF U32Gt(v, lead) THEN v - lead ELSE v

\* "!_config_state.interval_min_seconds || (interval >= min)" with the lead
MinNetworkReached(interval, min, lead) ==
    (min = 0) \/ U32Ge(interval, LeadAdjusted(min, lead))

\* the gate mutated: the lead-adjusted threshold used for the decision
MinReachedWithLead(interval, min) ==
    (min = 0) \/ U32Ge(interval, LeadAdjusted(min, _nextEarlyWake))

\* "!_config_state.interval_min_seconds || (interval >= min)"
MinReached(interval, min) == (min = 0) \/ U32Ge(interval, min)

\* the first-publish rule of evaluatePublish
FirstPublishRule == _first_publish /\ ~_pending_first_publish

\* evaluatePublish() on the current state, with `trigs` as _pending_triggers
EvaluatePublish(trigs) ==
    IF _pending_immediate
    THEN EvaluationResults("IMMEDIATE", TRUE, FALSE)
    ELSE IF FirstPublishRule
    THEN EvaluationResults("TRIGGERS", TRUE,
                           U32Lt(now - _gnssStartedSec, ConnectingTime))
    ELSE
      LET interval    == now - _last_location_publish_sec
          maxInterval == now - _monotonic_publish_sec
          max         == _config_state.interval_max_seconds
          min         == _config_state.interval_min_seconds
          maxNetwork  == LeadAdjusted(max, _nextEarlyWake)
          neededMax   == (max # 0) /\ U32Ge(maxInterval, maxNetwork)
          neededMin   == (Len(trigs) # 0)
                         /\ MinNetworkReached(interval, min, _nextEarlyWake)
      IN  IF (max # 0) /\ U32Ge(maxInterval, max)
          THEN EvaluationResults("TIME", TRUE,
                                 U32Lt(maxInterval - max, LockTimeoutSec))
          ELSE IF (Len(trigs) # 0) /\ MinReached(interval, min)
          THEN EvaluationResults("TRIGGERS", TRUE,
                                 U32Lt(interval - min, LockTimeoutSec))
          ELSE EvaluationResults("NONE", neededMax \/ neededMin, FALSE)

NoResult == EvaluationResults("NONE", FALSE, FALSE)

(***************************************************************************)
(* Configuration transaction                                               *)
(***************************************************************************)
\* the booleans of the location object registered with a setter in init()
WrittenBools == {"min_publish", "lock_trigger", "process_ack", "tower", "gnss",
                 "wps", "enhance_loc", "loc_cb"}

Config(min, max, ack, gnss, lock) ==
    [interval_min_seconds |-> min, interval_max_seconds |-> max,
     min_publish |-> FALSE, lock_trigger |-> lock, process_ack |-> ack,
     tower |-> FALSE, gnss |-> gnss, wps |-> FALSE,
     enhance_loc |-> FALSE, loc_cb |-> FALSE]

\* the shadow before the first write transaction
ZeroConfig == Config(0, 0, FALSE, FALSE, FALSE)

NoExit == [valid |-> FALSE, write |-> FALSE, status |-> 0, ret |-> 0,
           before |-> ZeroConfig, shadow |-> ZeroConfig]

\* enter_location_config_cb(write, context)
enter_location_config_cb(write) ==
    /\ txn = "none"
    /\ txn' = IF write THEN "write" ELSE "read"
    /\ _config_state_shadow' = IF write THEN _config_state ELSE _config_state_shadow
    /\ obs' = [obs EXCEPT !.exit = NoExit, !.radiusAtEnter = radius]
    /\ UNCHANGED <<slotVars, _config_state, _config_state_loop_safe>>

\* config_set_int32_cb / config_set_bool_cb on a field of the location
\* object: the setters are bound to the shadow in init().
ShadowSet(field, v) ==
    /\ txn = "write"
    /\ obs.sets < ConfigMaxSets
    /\ _config_state_shadow[field] # v
    /\ _config_state_shadow' = [_config_state_shadow EXCEPT ![field] = v]
    /\ obs' = [obs EXCEPT !.sets = @ + 1]
    /\ UNCHANGED <<slotVars, _config_state, _config_state_loop_safe, txn>>

\* the validation skipped
ExitCommitsUnchecked(write, status) == write /\ status = 0

\* the shadow copied back whatever the status and the intervals
ExitCommitsAnyStatus(write, status) == write

\* "if(write && !status)" and the interval check inside it: TRUE when the
\* shadow is copied into the live config
ExitCommits(write, status) ==
    /\ write
    /\ status = 0
    /\ ~(_config_state_shadow.interval_min_seconds
           > _config_state_shadow.interval_max_seconds)

\* return value of exit_location_config_cb
ExitReturn(write, status) ==
    IF write /\ status = 0
       /\ _config_state_shadow.interval_min_seconds
            > _config_state_shadow.interval_max_seconds
    THEN -EINVAL
    ELSE status

\* exit_location_config_cb(write, status, context)
exit_location_config_cb(status) ==
    /\ txn # "none"
    /\ LET write == (txn = "write") IN
         /\ _config_state' = IF ExitCommits(write, status)
                             THEN _config_state_shadow ELSE _config_state
         /\ obs' = [obs EXCEPT !.exit =
                      [valid |-> TRUE, write |-> write, status |-> status,
                       ret |-> ExitReturn(write, status),
                       before |-> _config_state,
                       shadow |-> _config_state_shadow]]
    /\ txn' = "none"
    /\ UNCHANGED <<slotVars, _config_state_shadow, _config_state_loop_safe>>

EnterConfig == \E write \in BOOLEAN :
    enter_location_config_cb(write) /\ UNCHANGED <<slotVars, wpsVars, sleepVars, envVars, schedVars, trigVars, retryVars, loopVars>>

SetInterval == \E f \in {"interval_min_seconds", "interval_max_seconds"}, v \in IntervalValues :
    ShadowSet(f, v) /\ UNCHANGED <<slotVars, wpsVars, sleepVars, envVars, schedVars, trigVars, retryVars, loopVars>>

SetBool == \E f \in WrittenBools, v \in BOOLEAN :
    ShadowSet(f, v) /\ UNCHANGED <<slotVars, wpsVars, sleepVars, envVars, schedVars, trigVars, retryVars, loopVars>>

\* set_radius_cb(value, context): the radius setter is bound to the
\* location service, "setRadiusThreshold(value)"
set_radius_cb(value) ==
    /\ txn = "write"
    /\ obs.sets < ConfigMaxSets
    /\ radius # value
    /\ radius' = value
    /\ obs' = [obs EXCEPT !.sets = @ + 1]

SetRadius == \E value \in {0, 1} :
    /\ set_radius_cb(value)
    /\ UNCHANGED <<slotVars, wpsVars, sleepVars, cfgVars, now, connected, link, sleepDisabled,
                   fullWakeCycle, schedVars, trigVars, retryVars, loopVars>>

ExitConfig == \E status \in {0, -EINVAL} :
    exit_location_config_cb(status) /\ UNCHANGED <<slotVars, wpsVars, sleepVars, envVars, schedVars, trigVars, retryVars, loopVars>>

(***************************************************************************)
(* Trigger set: triggerLocPub                                              *)
(***************************************************************************)
\* std::lock_guard<RecursiveMutex> lg(mutex): a context gets the mutex when
\* nobody else holds it.  `self` is {c} for caller c and {} for loop(),
\* which never holds the mutex between two of its steps.
CanLock(self) == mutex \subseteq self

NoCall == [type |-> "NONE", s |-> "NONE", matched |-> FALSE]

\* the scan never matching
NeverMatched(trigs, s) == FALSE

\* "for(auto trigger : _pending_triggers) if(!strcmp(trigger, s)) matched = true"
Matched(trigs, s) == \E i \in 1..Len(trigs) : trigs[i] = s

\* triggerLocPub's effect on the list when run without interruption
TrigAppend(trigs, s) == IF Matched(trigs, s) THEN trigs ELSE Append(trigs, s)

RECURSIVE TrigAppendAll(_, _)
TrigAppendAll(trigs, names) ==
    IF names = <<>> THEN trigs
    ELSE TrigAppendAll(TrigAppend(trigs, Head(names)), Tail(names))

\* A caller outside loop() enters triggerLocPub: takes the mutex and scans.
CallerEnter(c, type, s) ==
    /\ callers[c] = NoCall
    /\ CanLock({c})
    /\ mutex' = mutex \cup {c}
    /\ callers' = [callers EXCEPT ![c] =
                     [type |-> type, s |-> s,
                      matched |-> Matched(_pending_triggers, s)]]
    /\ UNCHANGED <<slotVars, _pending_triggers, _pending_immediate, obs>>

\* ... appends, raises the immediate flag and leaves (the guard unlocks).
CallerLeave(c) ==
    /\ callers[c] # NoCall
    /\ _pending_triggers' = IF callers[c].matched THEN _pending_triggers
                            ELSE Append(_pending_triggers, callers[c].s)
    /\ _pending_immediate' = (_pending_immediate \/ callers[c].type = "IMMEDIATE")
    /\ mutex' = mutex \ {c}
    /\ callers' = [callers EXCEPT ![c] = NoCall]
    /\ obs' = [obs EXCEPT !.reqSince = @ \cup {callers[c].s}]

TriggerEnter == \E c \in Callers, type \in {"NORMAL", "IMMEDIATE"}, s \in CallerNames :
    CallerEnter(c, type, s) /\ UNCHANGED <<slotVars, wpsVars, sleepVars, cfgVars, envVars, schedVars, retryVars, loopVars>>

TriggerLeave == \E c \in Callers :
    CallerLeave(c) /\ UNCHANGED <<slotVars, wpsVars, sleepVars, cfgVars, envVars, schedVars, retryVars, loopVars>>

(***************************************************************************)
(* Retry engine: completion callbacks, location_publish_cb,                *)
(* location_publish                                                        *)
(***************************************************************************)
\* the completion handler and location_publish not running
NoCb == [pc |-> "idle", p |-> NoPayload, status |-> "NONE", text |-> NoPayload]

NoPub == [rval |-> "NONE", ret |-> "idle"]

\* issue_location_publish_callbacks: every pending callback sees `status`
IssueLog(log, pend, status) ==
    [c \in DOMAIN log |->
        IF c \in SeqToSet(pend) THEN Append(log[c], status) ELSE log[c]]

\* regLocPubCallback, called by the application between ticks
RegLocPubCallback ==
    /\ pc = "idle"
    /\ obs.nextCb <= MaxCallbacks
    /\ locPubCallbacks' = Append(locPubCallbacks, obs.nextCb)
    /\ obs' = [obs EXCEPT !.nextCb = @ + 1]
    /\ UNCHANGED <<slotVars, wpsVars, sleepVars, cfgVars, envVars, schedVars, trigVars, loopVars,
                   location_publish_retry_str, writerBuf, inflight,
                   pendingLocPubCallbacks>>

\* the failed request saved whether or not a payload is already buffered
CaptureOverwrites(status, req_event, allocOk) ==
    /\ status = "FAILURE"
    /\ req_event # NoPayload
    /\ allocOk

\* every completion that is not a success saved for a retry
CaptureUnlessSuccess(status, req_event, allocOk) ==
    /\ status # "SUCCESS"
    /\ req_event # NoPayload
    /\ location_publish_retry_str = NoPayload
    /\ allocOk

\* "if(req_event && !location_publish_retry_str)" and the malloc succeeding:
\* TRUE when location_publish_cb saves the request for a retry
CaptureOnFailure(status, req_event, allocOk) ==
    /\ status = "FAILURE"
    /\ req_event # NoPayload
    /\ location_publish_retry_str = NoPayload
    /\ allocOk

\* location_publish_cb(status, rsp_root, req_event, context) up to the end of
\* the loop of issue_location_publish_callbacks: every pending callback has
\* been called, "pendingLocPubCallbacks.clear();" is still to run
location_publish_cb(p, status, req_event, allocOk) ==
    LET capture == CaptureOnFailure(status, req_event, allocOk)
        mine    == (p = obs.trk.p)
    IN
    /\ _first_publish' = IF status = "SUCCESS" THEN FALSE ELSE _first_publish
    /\ _pending_first_publish' =
          IF status = "SUCCESS" THEN FALSE ELSE _pending_first_publish
    /\ location_publish_retry_str' =
          IF capture THEN req_event ELSE location_publish_retry_str
    /\ cb' = IF capture THEN NoCb ELSE [NoCb EXCEPT !.pc = "clear"]
    /\ obs' = [obs EXCEPT
          !.cbLog = IF capture THEN @ ELSE IssueLog(@, pendingLocPubCallbacks, status),
          !.cbAbout = IF capture THEN @ ELSE IssueLog(@, pendingLocPubCallbacks, p),
          !.trk = IF ~mine THEN @
                  ELSE [@ EXCEPT
                          !.captures = IF capture THEN @ + 1 ELSE @,
                          !.statuses = Append(@, status)]]

\* the completion handler is not running: the transport delivers one
\* completion at a time, and location_publish, which holds the cloud service
\* lock over its whole body, does not run inside the handler
HandlerIdle == cb.pc = "idle"

\* The transport delivers the completion of the send of p with `status`,
\* with or without the request text.  The handler takes no lock itself; it
\* never runs inside location_publish, on the specification's word that the
\* retry buffer is protected by the cloud service lock, which
\* location_publish holds over its whole body.  The list of pending
\* callbacks has no such protection: the handler reads it here and clears
\* it in a later step, and the steps of loop() that hold no lock can run in
\* between.  SpecSlot runs the handler and location_publish statement by
\* statement with that lock as a variable.
CompleteWith(p, status, withText, allocOk) ==
    /\ HandlerIdle
    /\ p \in inflight
    /\ inflight' = inflight \ {p}
    /\ location_publish_cb(p, status, IF withText THEN p ELSE NoPayload, allocOk)
    /\ UNCHANGED <<cloudLock, pubCall, issueLeft, pendingLocPubCallbacks, wpsVars, sleepVars, cfgVars, envVars, trigVars, loopVars, writerBuf, locPubCallbacks,
                   _last_location_publish_sec, _monotonic_publish_sec, _newMonotonic,
                   _gnssStartedSec, _nextEarlyWake, _firstLockSec, _lastGnssState>>

Complete == \E p \in inflight, status \in {"SUCCESS", "FAILURE", "TIMEOUT"},
               withText \in BOOLEAN, allocOk \in BOOLEAN :
    CompleteWith(p, status, withText, allocOk)

\* "pendingLocPubCallbacks.clear();" at the end of
\* issue_location_publish_callbacks, and the handler's return
CompleteClear ==
    /\ cb.pc = "clear"
    /\ cloudLock = "none"
    /\ pendingLocPubCallbacks' = <<>>
    /\ cb' = NoCb
    /\ UNCHANGED <<cloudLock, pubCall, issueLeft, wpsVars, sleepVars, cfgVars, envVars,
                   schedVars, trigVars, loopVars, location_publish_retry_str,
                   writerBuf, inflight, locPubCallbacks, obs>>

\* the busy branch not saving the payload
BusyCaptureNone(allocOk) == NoPayload

\* "location_publish_retry_str = malloc(len); memcpy(.., writer().buffer(), len)"
BusyCapture(allocOk) == IF allocOk THEN writerBuf ELSE NoPayload

\* the text handed to cloud_service.send
SendPayload == IF location_publish_retry_str # NoPayload
               THEN location_publish_retry_str ELSE writerBuf

\* location_publish(): the send and the handling of its return value, under
\* the cloud service lock.  rval is "OK" (0), "EBUSY" or "ERR" (any other).
location_publish(rval, allocOk) ==
    LET payload  == SendPayload
        viaRetry == location_publish_retry_str # NoPayload
        busyNew  == rval = "EBUSY" /\ ~viaRetry
        saved    == IF busyNew THEN BusyCapture(allocOk) ELSE NoPayload
        issue    == (busyNew /\ saved = NoPayload) \/ rval = "ERR"
        mine     == (payload = obs.trk.p)
    IN
    /\ rval = "OK" => Cardinality(inflight) < MaxInFlight
    /\ inflight' = IF rval = "OK" THEN inflight \cup {payload} ELSE inflight
    /\ location_publish_retry_str' =
          IF rval = "EBUSY"
          THEN (IF viaRetry THEN location_publish_retry_str ELSE saved)
          ELSE NoPayload
    /\ pendingLocPubCallbacks' = IF issue THEN <<>> ELSE pendingLocPubCallbacks
    /\ obs' = [obs EXCEPT
          !.cbLog = IF issue THEN IssueLog(@, pendingLocPubCallbacks, "FAILURE") ELSE @,
          !.cbAbout = IF issue THEN IssueLog(@, pendingLocPubCallbacks, payload) ELSE @,
          !.sent = [payload |-> payload, buffer |-> location_publish_retry_str,
                    busy |-> obs.busy, rval |-> rval, tick |-> _loopSampleTick],
          !.busy = IF busyNew /\ allocOk THEN writerBuf
                   ELSE IF rval = "EBUSY" THEN @ ELSE NoPayload,
          !.trk = IF mine /\ rval = "OK" THEN [@ EXCEPT !.sends = @ + 1] ELSE @]

(***************************************************************************)
(* loop()                                                                  *)
(***************************************************************************)
\* loopLocation: the state computed from the location service's answer
\* `st` (powered / error / locked / stable), DISABLED when gnss is off
LocationState(st) == IF ~_config_state.gnss THEN "DISABLED" ELSE st

\* "Detect GNSS locked changes"
LockedChange(cur) == cur = "ON_LOCKED_STABLE" /\ cur # _lastGnssState

\* the first-lock time written on every change to a stable lock
CaptureAlways(cur) == IF LockedChange(cur) THEN now ELSE _firstLockSec

\* "if (_firstLockSec == 0) _firstLockSec = System.uptime()" on a change
\* to a stable lock
CaptureFirstLock(cur) ==
    IF LockedChange(cur) /\ _firstLockSec = 0 THEN now ELSE _firstLockSec

\* "if (outside) triggerLocPub(Trigger::NORMAL, "radius")" on a stable lock
RadiusTrigger(cur, outside) ==
    IF cur = "ON_LOCKED_STABLE" /\ outside THEN <<"radius">> ELSE <<>>

\* "if (_sleep.isSleepDisabled() && _config_state.lock_trigger)
\*      triggerLocPub(Trigger::NORMAL, "lock")" on a change to a stable lock
LockTrigger(cur) ==
    IF LockedChange(cur) /\ sleepDisabled /\ _config_state.lock_trigger
    THEN <<"lock">> ELSE <<>>

\* the two inner switches of loop(): TRUE when the decision publishes
\* in this tick.  GnssState::ERROR has no case label.
LockAllows(status, lockWait) ==
    CASE status \in {"DISABLED", "ON_LOCKED_STABLE"} -> TRUE
      [] status \in {"OFF", "ON_UNLOCKED", "ON_LOCKED_UNSTABLE"} -> ~lockWait
      [] OTHER -> FALSE

\* the outer switch with IMMEDIATE sent through the lock-wait table too
PublishNowLockOnly(r, status) ==
    r.reason # "NONE" /\ LockAllows(status, r.lockWait)

\* the outer switch of loop(): publishNow
PublishNow(r, status) ==
    CASE r.reason = "NONE" -> FALSE
      [] r.reason = "IMMEDIATE" -> TRUE
      [] OTHER -> LockAllows(status, r.lockWait)

\* what Particle.connected() can return
Connectivity == IF link = "up" THEN {TRUE} ELSE BOOLEAN

\* "if (radius) isOutsideRadius(outside, cur_loc)": what the check can give
OutsideRadius == IF radius = 0 THEN {FALSE} ELSE BOOLEAN

\* "Sync power state changes": the call loop() makes to the location service
\* with the live configuration, `powered` being the status the service reports
PowerSync(firstLoop, powered) ==
    IF firstLoop
    THEN (IF _config_state.gnss THEN "start" ELSE gnssReq)
    ELSE IF _config_state.gnss /\ ~powered THEN "start"
    ELSE IF ~_config_state.gnss /\ powered THEN "stop"
    ELSE gnssReq

\* loop() up to the retry attempt: the sample gate
\* "if (millis() - _loopSampleTick < LoopSampleRate) return" passed at uptime
\* t, the power sync, the configuration captured for the rest of the tick
LoopBegin(limit) ==
    \E t \in now..(now + LoopMaxStep), c \in Connectivity, powered \in BOOLEAN :
    /\ pc = "idle"
    /\ t <= limit
    /\ 1000 * t - _loopSampleTick >= LoopSampleRate
    /\ now' = t
    /\ gnssReq' = PowerSync(_loopSampleTick = 0, powered)
    /\ _loopSampleTick' = 1000 * t
    /\ connected' = c
    /\ _config_state_loop_safe' = _config_state
    /\ pc' = IF location_publish_retry_str # NoPayload /\ c THEN "retry" ELSE "sample"
    /\ UNCHANGED <<slotVars, wpsVars, _earlyWake, wakeReq, link, radius, sleepDisabled,
                   fullWakeCycle, _config_state, _config_state_shadow, txn,
                   schedVars, trigVars, retryVars, publishReason, locationStatus,
                   obs>>

LoopStart == LoopBegin(MaxTime)

\* "First take care of any retry attempts of last loc"
LoopRetry == \E rval \in {"OK", "EBUSY", "ERR"}, allocOk \in BOOLEAN :
    /\ pc = "retry"
    /\ HandlerIdle
    /\ location_publish(rval, allocOk)
    /\ pc' = "sample"
    /\ UNCHANGED <<slotVars, wpsVars, sleepVars, cfgVars, envVars, schedVars, trigVars, writerBuf, locPubCallbacks,
                   publishReason, locationStatus>>

\* loopLocation up to the radius check: the fix state, and
\* triggerLocPub(NORMAL, "radius") under its own lock
LoopRadius == \E st \in GnssStates \ {"DISABLED"}, outside \in OutsideRadius :
    LET cur   == LocationState(st)
        names == RadiusTrigger(cur, outside)
    IN
    /\ pc = "sample"
    /\ names # <<>> => CanLock({})
    /\ locationStatus' = cur
    /\ _pending_triggers' = TrigAppendAll(_pending_triggers, names)
    /\ pc' = "lock"
    /\ obs' = [obs EXCEPT !.reqSince = @ \cup SeqToSet(names)]
    /\ UNCHANGED <<slotVars, wpsVars, sleepVars, cfgVars, envVars, schedVars, _pending_immediate,
                   mutex, callers, retryVars, publishReason>>

\* the rest of loopLocation up to the call of triggerLocPub: the change to
\* a stable lock and the first-lock time.  Without a "lock" trigger to
\* raise, nothing separates that write from "_lastGnssState =
\* currentGnssState" and the step ends loopLocation.
LoopLock ==
    LET cur   == locationStatus
        names == LockTrigger(cur)
    IN
    /\ pc = "lock"
    /\ _firstLockSec' = CaptureFirstLock(cur)
    /\ _lastGnssState' = IF cur = "DISABLED" \/ names # <<>> THEN _lastGnssState
                         ELSE cur
    /\ pc' = IF names # <<>> THEN "locktrig" ELSE "evaluate"
    /\ obs' = [obs EXCEPT !.relock = LockedChange(cur) /\ _firstLockSec # 0]
    /\ UNCHANGED <<slotVars, wpsVars, sleepVars, cfgVars, envVars, _last_location_publish_sec,
                   _monotonic_publish_sec, _newMonotonic, _first_publish,
                   _pending_first_publish, _gnssStartedSec, _nextEarlyWake,
                   trigVars, retryVars, publishReason, locationStatus>>

\* triggerLocPub(Trigger::NORMAL, "lock") of loopLocation, under its lock
LoopLockTrigger ==
    /\ pc = "locktrig"
    /\ CanLock({})
    /\ _pending_triggers' = TrigAppend(_pending_triggers, "lock")
    /\ pc' = "locked"
    /\ obs' = [obs EXCEPT !.reqSince = @ \cup {"lock"}]
    /\ UNCHANGED <<slotVars, wpsVars, sleepVars, cfgVars, envVars, schedVars, _pending_immediate,
                   mutex, callers, retryVars, publishReason, locationStatus>>

\* "_lastGnssState = currentGnssState" after the trigger call has returned
LoopLockDone ==
    /\ pc = "locked"
    /\ _lastGnssState' = locationStatus
    /\ pc' = "evaluate"
    /\ UNCHANGED <<slotVars, wpsVars, sleepVars, cfgVars, envVars, _last_location_publish_sec,
                   _monotonic_publish_sec, _newMonotonic, _first_publish,
                   _pending_first_publish, _gnssStartedSec, _nextEarlyWake,
                   _firstLockSec, trigVars, retryVars, publishReason,
                   locationStatus, obs>>

\* what evaluatePublish, which takes no lock, can find in _pending_triggers:
\* the list, or the list with the name a caller inside triggerLocPub has
\* appended before raising the immediate flag
SeenTriggers ==
    {_pending_triggers}
      \cup {Append(_pending_triggers, callers[c].s) :
               c \in {d \in Callers : callers[d] # NoCall /\ ~callers[d].matched}}

\* "auto publishReason = evaluatePublish()" and enableNetwork
LoopEvaluate == \E trigs \in SeenTriggers :
    LET r      == EvaluatePublish(trigs)
        enable == ~fullWakeCycle /\ r.networkNeeded
    IN
    /\ pc = "evaluate"
    /\ publishReason' = r
    /\ fullWakeCycle' = (fullWakeCycle \/ enable)
    /\ _gnssStartedSec' = IF enable THEN now ELSE _gnssStartedSec
    /\ pc' = "decide"
    /\ UNCHANGED <<slotVars, wpsVars, sleepVars, cfgVars, now, connected, link, radius,
                   sleepDisabled, _last_location_publish_sec, _monotonic_publish_sec,
                   _newMonotonic, _first_publish, _pending_first_publish,
                   _nextEarlyWake, _firstLockSec, _lastGnssState, trigVars,
                   retryVars, locationStatus, obs>>

\* the decision switch, triggerLocPub(NORMAL, "time") under its own lock,
\* and "if(publishNow && Particle.connected())"
LoopDecide == \E c \in Connectivity :
    LET r     == publishReason
        pub   == PublishNow(r, locationStatus)
        timed == r.reason = "TIME" /\ pub
    IN
    /\ pc = "decide"
    /\ timed => CanLock({})
    /\ _pending_triggers' = IF timed THEN TrigAppend(_pending_triggers, "time")
                            ELSE _pending_triggers
    /\ _pending_immediate' = IF r.reason = "IMMEDIATE" THEN FALSE ELSE _pending_immediate
    /\ _newMonotonic' = (_newMonotonic
                         \/ (r.reason = "TRIGGERS" /\ pub) \/ r.reason = "IMMEDIATE")
    /\ connected' = IF pub THEN c ELSE connected
    /\ pc' = IF pub /\ c THEN "stale" ELSE "idle"
    /\ obs' = [obs EXCEPT !.reqSince = @ \cup (IF timed THEN {"time"} ELSE {})]
    /\ UNCHANGED <<slotVars, wpsVars, sleepVars, now, link, radius, sleepDisabled, fullWakeCycle,
                   cfgVars, _last_location_publish_sec, _monotonic_publish_sec,
                   _first_publish, _pending_first_publish, _gnssStartedSec,
                   _nextEarlyWake, _firstLockSec, _lastGnssState, mutex, callers,
                   retryVars, publishReason, locationStatus>>

\* "if(location_publish_retry_str)" of the stale branch.  The branch holds no
\* lock: the completion handler can run between any two of its steps.
LoopStale ==
    /\ pc = "stale"
    /\ pc' = IF location_publish_retry_str # NoPayload THEN "stalecb" ELSE "build"
    /\ obs' = IF location_publish_retry_str # NoPayload THEN obs
              ELSE [obs EXCEPT !.busy = NoPayload]
    /\ UNCHANGED <<slotVars, wpsVars, sleepVars, cfgVars, envVars, schedVars, trigVars,
                   retryVars, publishReason, locationStatus>>

\* what the range-for of issue_location_publish_callbacks has still to visit:
\* the whole list when the call is made, the rest of it afterwards
StaleLeft == IF pc = "stalecb" THEN pendingLocPubCallbacks ELSE issueLeft

\* "issue_location_publish_callbacks(CloudServiceStatus::TIMEOUT, NULL,
\* location_publish_retry_str)", one "cb(status, rsp_root, req_event)" of
\* its loop.  An element the handler's clear() has destroyed in the meantime
\* is read all the same: the callback runs or it does not.
LoopStaleCall ==
    /\ pc \in {"stalecb", "staleloop"}
    /\ StaleLeft # <<>>
    /\ \E run \in IF Head(StaleLeft) \in SeqToSet(pendingLocPubCallbacks)
                   THEN {TRUE} ELSE BOOLEAN :
          obs' = IF run
                 THEN [obs EXCEPT
                         !.cbLog = IssueLog(@, <<Head(StaleLeft)>>, "TIMEOUT"),
                         !.cbAbout = IssueLog(@, <<Head(StaleLeft)>>,
                                              location_publish_retry_str)]
                 ELSE obs
    /\ issueLeft' = Tail(StaleLeft)
    /\ pc' = "staleloop"
    /\ UNCHANGED <<cloudLock, cb, pubCall, wpsVars, sleepVars, cfgVars, envVars,
                   schedVars, trigVars, retryVars, publishReason, locationStatus>>

\* the end of that loop and "pendingLocPubCallbacks.clear();"
LoopStaleClear ==
    /\ pc \in {"stalecb", "staleloop"}
    /\ StaleLeft = <<>>
    /\ pendingLocPubCallbacks' = <<>>
    /\ issueLeft' = <<>>
    /\ pc' = "stalefree"
    /\ UNCHANGED <<cloudLock, cb, pubCall, wpsVars, sleepVars, cfgVars, envVars,
                   schedVars, trigVars, location_publish_retry_str, writerBuf,
                   inflight, locPubCallbacks, publishReason, locationStatus, obs>>

\* "free(location_publish_retry_str); location_publish_retry_str = nullptr;"
LoopStaleFree ==
    /\ pc = "stalefree"
    /\ location_publish_retry_str' = NoPayload
    /\ obs' = [obs EXCEPT !.busy = NoPayload]
    /\ pc' = "build"
    /\ UNCHANGED <<slotVars, wpsVars, sleepVars, cfgVars, envVars, schedVars, trigVars,
                   writerBuf, inflight, locPubCallbacks, pendingLocPubCallbacks,
                   publishReason, locationStatus>>

\* the list left pending by a drain that forgets to clear it
DrainKeeps(trigs) == trigs

\* buildPublish: "_pending_triggers.clear()" under the lock
Drained(trigs) == <<>>

\* a report whose trig array is left empty
ReportNoTrig(t, trigs) == [t |-> t, trig |-> <<>>]

\* the report in the writer: composed at time t, with trig array trigs
Report(t, trigs) == [t |-> t, trig |-> trigs]

\* the anchor advanced by interval_max on every publish
NextAnchorAlwaysAdds(t) ==
    _monotonic_publish_sec + _config_state.interval_max_seconds

\* "_monotonic_publish_sec" after a publish at time t
NextAnchor(t) ==
    IF FirstPublishRule \/ _newMonotonic THEN t
    ELSE _monotonic_publish_sec + _config_state.interval_max_seconds

\* where buildPublish goes after the trig array: "if
\* (_config_state_loop_safe.enhance_loc)", else its end
AfterTrig == IF _config_state_loop_safe.enhance_loc THEN "tower" ELSE "anchor"

\* buildPublish up to "cloud_service.writer().endObject()": the command begun
\* and the loc object written at the uptime the call starts with, the field
\* generators called; no trig array yet.  Uptime may pass meanwhile.
LoopBuild == \E t \in now..(now + BuildMaxDelay) :
    /\ pc = "build"
    /\ writerBuf' = Report(now, <<>>)
    /\ now' = t
    /\ pc' = "trigtest"
    /\ UNCHANGED <<slotVars, wpsVars, sleepVars, cfgVars, connected, link, radius, sleepDisabled,
                   fullWakeCycle, schedVars, trigVars,
                   location_publish_retry_str, inflight, locPubCallbacks,
                   pendingLocPubCallbacks, publishReason, locationStatus, obs>>

\* "if(!_pending_triggers.isEmpty())", read without the mutex: with nothing
\* pending the report gets no trig array and nothing is drained
LoopTrigTest ==
    /\ pc = "trigtest"
    /\ pc' = IF _pending_triggers # <<>> THEN "drain" ELSE AfterTrig
    /\ obs' = IF _pending_triggers # <<>> THEN obs
              ELSE [obs EXCEPT !.reqAtDrain = obs.reqSince, !.reqSince = {}]
    /\ UNCHANGED <<slotVars, wpsVars, sleepVars, cfgVars, envVars, schedVars, trigVars,
                   retryVars, publishReason, locationStatus>>

\* the block under "std::lock_guard<RecursiveMutex> lg(mutex)": the trig
\* array written from the pending names and the list cleared
LoopDrain ==
    /\ pc = "drain"
    /\ CanLock({})
    /\ writerBuf' = Report(writerBuf.t, _pending_triggers)
    /\ _pending_triggers' = Drained(_pending_triggers)
    /\ pc' = AfterTrig
    /\ obs' = [obs EXCEPT
          !.reqAtDrain = obs.reqSince,
          !.reqSince = {}]
    /\ UNCHANGED <<slotVars, wpsVars, sleepVars, cfgVars, envVars, schedVars,
                   _pending_immediate, mutex, callers,
                   location_publish_retry_str, inflight, locPubCallbacks,
                   pendingLocPubCallbacks, publishReason, locationStatus>>

\* the bookkeeping between buildPublish and location_publish: the callbacks
\* moved to the pending list, "_last_location_publish_sec = System.uptime()",
\* the anchor and the first publish without acknowledgement
LoopAnchor ==
    /\ pc = "anchor"
    /\ pendingLocPubCallbacks' = locPubCallbacks
    /\ locPubCallbacks' = <<>>
    /\ _last_location_publish_sec' = now
    /\ _monotonic_publish_sec' = NextAnchor(now)
    /\ _newMonotonic' = IF FirstPublishRule \/ _newMonotonic THEN FALSE
                        ELSE _newMonotonic
    /\ _first_publish' = IF ~_config_state.process_ack THEN FALSE ELSE _first_publish
    /\ pc' = "send"
    /\ obs' = [obs EXCEPT
          !.cbOwner = [c \in DOMAIN @ |->
                         IF c \in SeqToSet(locPubCallbacks)
                         THEN writerBuf ELSE @[c]],
          !.trk = [p |-> writerBuf,
                   cbs |-> SeqToSet(locPubCallbacks),
                   sends |-> 0, captures |-> 0, statuses |-> <<>>]]
    /\ UNCHANGED <<slotVars, wpsVars, sleepVars, cfgVars, envVars, _pending_first_publish,
                   _gnssStartedSec, _nextEarlyWake, _firstLockSec, _lastGnssState,
                   trigVars, location_publish_retry_str, writerBuf, inflight,
                   publishReason, locationStatus>>

\* the first-publish mark left as it was
KeepPendingFirst == _pending_first_publish

\* "if (_first_publish && !_pending_first_publish) _pending_first_publish = true"
MarkPendingFirst == IF _first_publish THEN TRUE ELSE _pending_first_publish

\* location_publish() of the new report, under the cloud service lock
LoopSendWith(rvals) == \E rval \in rvals, allocOk \in BOOLEAN :
    /\ pc = "send"
    /\ HandlerIdle
    /\ location_publish(rval, allocOk)
    /\ pc' = "mark"
    /\ UNCHANGED <<slotVars, wpsVars, sleepVars, cfgVars, envVars, schedVars, trigVars, writerBuf,
                   locPubCallbacks, publishReason, locationStatus>>

\* the first-publish mark after location_publish has returned
LoopMark ==
    /\ pc = "mark"
    /\ _pending_first_publish' = MarkPendingFirst
    /\ pc' = "idle"
    /\ UNCHANGED <<slotVars, wpsVars, sleepVars, cfgVars, envVars, _last_location_publish_sec,
                   _monotonic_publish_sec, _newMonotonic, _first_publish,
                   _gnssStartedSec, _nextEarlyWake, _firstLockSec, _lastGnssState,
                   trigVars, retryVars, publishReason, locationStatus, obs>>

LoopSend == LoopSendWith({"OK", "EBUSY", "ERR"})

\* the same step when the transport refuses every send with an error
SchedLoopSend == LoopSendWith({"ERR"})

(***************************************************************************)
(* Sleep hooks                                                             *)
(***************************************************************************)
\* Unsigned 32-bit values are kept as integers, a negative one standing for
\* the value 2^32 higher, and compared with U32Lt, U32Ge and U32Gt.

\* TrackerSleep::wakeAtSeconds answers TIME_IN_PAST
TimeInPast(wake) == U32Ge(now, wake)

\* "lastWakeSec = (context.lastWakeMs + 500) / 1000", less MiscSleepWakeSec
LastWakeSec(ms) ==
    LET sec == (ms + 500) \div 1000
    IN  IF sec >= MiscSleepWakeSec THEN sec - MiscSleepWakeSec ELSE sec

\* "if (newEarlyWakeSec > t_conn) newEarlyWakeSec = t_conn"
LeadCapped(new, t_conn) == IF U32Gt(new, t_conn) THEN t_conn ELSE new

\* newEarlyWakeSec of a full wake cycle
NewEarlyWakeSec(ms) ==
    LET wakeToLock == IF _firstLockSec = 0 THEN ConnectingTime
                      ELSE _firstLockSec - LastWakeSec(ms)
        variance   == _last_location_publish_sec - _monotonic_publish_sec
    IN  LeadCapped(wakeToLock + variance + 1, ConnectingTime)

\* the lead onSleepPrepare stores in _nextEarlyWake
PrepareLead(ms) ==
    IF fullWakeCycle THEN NewEarlyWakeSec(ms)
    ELSE IF _earlyWake = 0 THEN ConnectingTime ELSE _earlyWake

\* the wake time before the lead is taken off: last publish plus the min
\* interval when triggers are pending, plus the max interval otherwise
PrepareTarget ==
    _last_location_publish_sec
       + (IF Len(_pending_triggers) # 0
          THEN _config_state.interval_min_seconds
          ELSE _config_state.interval_max_seconds)

\* "if (wake > _nextEarlyWake) wake -= _nextEarlyWake"
PrepareWake(lead) ==
    IF U32Gt(PrepareTarget, lead) THEN PrepareTarget - lead ELSE PrepareTarget

\* onSleepPrepare(context) with context.lastWakeMs = ms
onSleepPrepare(ms) ==
    LET lead == PrepareLead(ms)
        wake == PrepareWake(lead)
    IN
    /\ _earlyWake' = IF fullWakeCycle THEN lead ELSE _earlyWake
    /\ _nextEarlyWake' = lead
    /\ wakeReq' = IF TimeInPast(wake) THEN <<wake, 0>> ELSE <<wake>>
    /\ UNCHANGED <<slotVars, cfgVars, envVars, _last_location_publish_sec,
                   _monotonic_publish_sec, _newMonotonic, _first_publish,
                   _pending_first_publish, _gnssStartedSec, _firstLockSec,
                   _lastGnssState, trigVars, retryVars, publishReason,
                   locationStatus, wpsVars, gnssReq, _loopSampleTick, obs>>

\* onSleepPrepare called by the sleep manager between two ticks, the last
\* wake having been at `sec`
OnSleepPrepare == \E sec \in 0..now :
    /\ pc = "idle"
    /\ _firstLockSec # 0 => sec <= _firstLockSec
    /\ onSleepPrepare(1000 * sec)
    /\ pc' = "prepared"

\* onSleepCancel(context): empty body; the device stays awake
OnSleepCancel ==
    /\ pc = "prepared"
    /\ pc' = "idle"
    /\ UNCHANGED <<slotVars, wpsVars, sleepVars, cfgVars, envVars, schedVars, trigVars, retryVars,
                   publishReason, locationStatus, obs>>

\* onSleep(context): "disableGnss(); disableWifi();", then the device is
\* suspended for `least` seconds or more until uptime t, no later than
\* `limit`; the sleep manager decides whether the wake starts as a full
\* wake cycle
onSleepFor(least, limit) == \E t \in (now + least)..limit, full \in BOOLEAN :
    /\ pc = "prepared"
    /\ gnssReq' = "stop"
    /\ now' = t
    /\ fullWakeCycle' = full
    /\ pc' = "asleep"
    /\ UNCHANGED <<slotVars, wpsVars, _earlyWake, wakeReq, _loopSampleTick, cfgVars, connected, link, radius,
                   sleepDisabled, schedVars, trigVars, retryVars, publishReason,
                   locationStatus, obs>>

onSleep(limit) == onSleepFor(0, limit)

\* onWake(context): the first-lock capture re-armed, the evaluator re-run,
\* enableNetwork and enableGnss when it asks for the network
OnWake ==
    LET result == EvaluatePublish(_pending_triggers) IN
    /\ pc = "asleep"
    /\ _firstLockSec' = 0
    /\ fullWakeCycle' = (fullWakeCycle \/ result.networkNeeded)
    /\ _gnssStartedSec' = IF result.networkNeeded THEN now ELSE _gnssStartedSec
    /\ gnssReq' = IF result.networkNeeded /\ _config_state_loop_safe.gnss
                  THEN "start" ELSE gnssReq
    /\ _loopSampleTick' = 0
    /\ pc' = "idle"
    /\ UNCHANGED <<slotVars, wpsVars, _earlyWake, wakeReq, cfgVars, now, connected, link, radius,
                   sleepDisabled, _last_location_publish_sec, _monotonic_publish_sec,
                   _newMonotonic, _first_publish, _pending_first_publish,
                   _nextEarlyWake, _lastGnssState, trigVars, retryVars,
                   publishReason, locationStatus, obs>>

\* onSleepState(context): STATE_TO_CONNECTING starts the location service,
\* STATE_TO_SHUTDOWN stops it
OnSleepState == \E reason \in {"STATE_TO_CONNECTING", "STATE_TO_SHUTDOWN"} :
    /\ pc = "idle"
    /\ gnssReq' = IF reason = "STATE_TO_CONNECTING" THEN "start" ELSE "stop"
    /\ UNCHANGED <<slotVars, wpsVars, _earlyWake, wakeReq, _loopSampleTick, cfgVars, envVars,
                   schedVars, trigVars, retryVars, loopVars, obs>>

(***************************************************************************)
(* buildWpsInfo                                                            *)
(***************************************************************************)
Min(a, b) == IF a < b THEN a ELSE b

\* nothing put into the writer
NoWps == [named |-> FALSE, entries |-> <<>>]

\* WiFi.scan(wifi_cb, this) with n access points in range, numbered 1..n:
\* wifi_cb appends while fewer than TrackerLocationMaxWpsCollect are held
WifiScan(n) == [i \in 1..Min(n, TrackerLocationMaxWpsCollect) |-> i]

\* floor(2^32 / d) and 2^32 mod d, from 2^32 = 2 * (2147483647 + 1)
Pow32Div(d) == 2 * (2147483647 \div d) + (2 * ((2147483647 % d) + 1)) \div d
Pow32Mod(d) == (2 * ((2147483647 % d) + 1)) % d

\* a / d in size_t arithmetic, a value below zero standing for the value
\* wrapped by 2^32
SizeDiv(a, d) == IF a >= 0 THEN a \div d
                 ELSE Pow32Div(d) + (Pow32Mod(d) + a) \div d

\* one entry more than the budget pays for
WpsCountPlusOne(size) ==
    SizeDiv(size - ObjectEstimateWpsHeaderSize, ObjectEstimateWpsDataSize) + 1

\* "size_t wpsCount = (size - ObjectEstimateWpsHeaderSize) / ObjectEstimateWpsDataSize"
WpsCount(size) ==
    SizeDiv(size - ObjectEstimateWpsHeaderSize, ObjectEstimateWpsDataSize)

\* TRUE when buildWpsInfo gets as far as the scan: wps on in the loop-safe
\* configuration, "ObjectEstimateWpsHeaderSize >= size" false in size_t
\* order, and a count above zero
WpsScans(size) ==
    /\ _config_state_loop_safe.wps
    /\ ~U32Ge(ObjectEstimateWpsHeaderSize, size)
    /\ WpsCount(size) # 0

\* the loop over wpsList: "int wifiCount = wpsCount" and
\* "if (wifiCount-- <= 0) break" before every entry
WpsEntries(size, list) == SubSeq(list, 1, Min(WpsCount(size), Len(list)))

\* no budget computed: writer sizes, bytes the tower block puts out, and
\* the budgets handed to the tower block and to the WiFi block
NoEnrich == [bufferSize |-> 0, dataSize |-> 0, endSize |-> 0, towerOut |-> 0,
             towerSize |-> 0, wpsSize |-> 0]

\* "size_t remainingSize = writer().bufferSize() - 1 - writer().dataSize()
\*                         - estimatedEndCommandSize()"; a size_t below zero
\* stands for the value wrapped by 2^32, as for the uint32 times
RemainingSize(bufferSize, dataSize, endSize) == bufferSize - 1 - dataSize - endSize

\* buildTowerInfo(writer, size): "return writer.dataSize() - written" with
\* `out` bytes put into the writer; the size argument is not read
BuildTowerInfo(size, out) == IF _config_state_loop_safe.tower THEN out ELSE 0

\* the budgets of the two blocks for the writer sizes and the tower output
\* of e: "remainingSize -= buildTowerInfo(cloud_service.writer(), remainingSize)"
EnrichBudgets(e) ==
    LET first  == RemainingSize(e.bufferSize, e.dataSize, e.endSize)
        second == first - BuildTowerInfo(first, e.towerOut)
    IN  [e EXCEPT !.towerSize = first, !.wpsSize = second]

\* capacities of the writer's buffer met by loop(): the small one and one
\* that leaves the WiFi block its largest budget
LoopWriterSizes == {EnrichBufferSize, WpsMaxSize + EnrichEndSize + 1}

\* the enrichment block of buildPublish, first part: the budget left in the
\* writer and buildTowerInfo, whose Cellular.command calls block while
\* uptime passes.  The fill level of the writer and the bytes of the tower
\* block are the environment's.
LoopTower ==
    \E buf \in LoopWriterSizes, data \in 0..EnrichMaxData,
       out \in 0..EnrichMaxTower, t \in now..(now + BuildMaxDelay) :
    /\ pc = "tower"
    /\ ~_config_state_loop_safe.tower => out = 0
    /\ enrich' = EnrichBudgets([NoEnrich EXCEPT !.bufferSize = buf,
                                                !.dataSize = data,
                                                !.endSize = EnrichEndSize,
                                                !.towerOut = out])
    /\ now' = t
    /\ pc' = "wifi"
    /\ UNCHANGED <<slotVars, sleepVars, cfgVars, connected, link, radius, sleepDisabled,
                   fullWakeCycle, schedVars, trigVars, retryVars, publishReason,
                   locationStatus, wpsList, wpsIn, wpsOut, obs>>

\* buildWpsInfo(writer, remainingSize) up to the scan: the early returns,
\* else "wpsList.clear()"
LoopWps ==
    LET size == enrich.wpsSize IN
    /\ pc = "wifi"
    /\ wpsIn' = [size |-> size, scan |-> 0]
    /\ wpsOut' = NoWps
    /\ wpsList' = IF WpsScans(size) THEN <<>> ELSE wpsList
    /\ pc' = IF WpsScans(size) THEN "scan" ELSE "anchor"
    /\ UNCHANGED <<slotVars, sleepVars, cfgVars, envVars, schedVars, trigVars, retryVars,
                   publishReason, locationStatus, enrich, obs>>

\* "WiFi.scan(wifi_cb, this)" with n access points in range, blocking while
\* uptime passes, and the wps array written from the list
LoopWifiScan == \E n \in 0..WpsMaxScan, t \in now..(now + BuildMaxDelay) :
    LET list == WifiScan(n) IN
    /\ pc = "scan"
    /\ wpsIn' = [wpsIn EXCEPT !.scan = n]
    /\ wpsList' = list
    /\ wpsOut' = IF list # <<>>
                 THEN [named |-> TRUE, entries |-> WpsEntries(wpsIn.size, list)]
                 ELSE NoWps
    /\ now' = t
    /\ pc' = "anchor"
    /\ UNCHANGED <<slotVars, sleepVars, cfgVars, connected, link, radius, sleepDisabled,
                   fullWakeCycle, schedVars, trigVars, retryVars, publishReason,
                   locationStatus, enrich, obs>>

SlotUnused ==
    /\ cloudLock = "none"
    /\ cb = NoCb
    /\ pubCall = NoPub
    /\ issueLeft = <<>>

\* no enrichment in progress
WpsUnused ==
    /\ wpsList = <<>>
    /\ wpsIn = [size |-> 0, scan |-> 0]
    /\ wpsOut = NoWps
    /\ enrich = NoEnrich

(***************************************************************************)
(* Initial states                                                          *)
(***************************************************************************)
ObsInit ==
    [exit |-> NoExit, reqSince |-> {}, reqAtDrain |-> {}, nextCb |-> 1,
     cbLog |-> [c \in 1..MaxCallbacks |-> <<>>],
     cbOwner |-> [c \in 1..MaxCallbacks |-> NoPayload],
     cbAbout |-> [c \in 1..MaxCallbacks |-> <<>>],
     trk |-> [p |-> NoPayload, cbs |-> {}, sends |-> 0, captures |-> 0,
              statuses |-> <<>>],
     sent |-> [payload |-> NoPayload, buffer |-> NoPayload, busy |-> NoPayload,
               rval |-> "NONE", tick |-> 0],
     busy |-> NoPayload, radiusAtEnter |-> 0, relock |-> FALSE,
     sets |-> 0]

\* The members as the constructor leaves them: the first publish is due,
\* nothing is pending, buffered or in flight.
Constructed ==
    /\ _config_state_shadow = ZeroConfig
    /\ txn = "none"
    /\ _monotonic_publish_sec = 0
    /\ _newMonotonic = FALSE
    /\ _first_publish = TRUE
    /\ _pending_first_publish = FALSE
    /\ _gnssStartedSec = 0
    /\ _nextEarlyWake = 0
    /\ _firstLockSec = 0
    /\ _lastGnssState = "OFF"
    /\ _pending_triggers = <<>>
    /\ _pending_immediate = FALSE
    /\ mutex = {}
    /\ callers = [c \in Callers |-> NoCall]
    /\ location_publish_retry_str = NoPayload
    /\ writerBuf = NoPayload
    /\ inflight = {}
    /\ locPubCallbacks = <<>>
    /\ pendingLocPubCallbacks = <<>>
    /\ pc = "idle"
    /\ publishReason = NoResult
    /\ locationStatus = "OFF"
    /\ WpsUnused
    /\ _earlyWake = 0
    /\ wakeReq = <<>>
    /\ gnssReq = "none"
    /\ _loopSampleTick = 0
    /\ SlotUnused
    /\ obs = ObsInit

\* What _config_state_loop_safe can hold before the first tick of loop():
\* the member has no initializer in init() and is first written by
\* "_config_state_loop_safe = captureConfig" in loop(), so a hook that runs
\* earlier reads whatever the object was created with.  gnss, enhance_loc and
\* wps are the fields read before that write (onWake, and the WiFi test at
\* the head of loop()); the remaining booleans are all off or all on.
UnsetConfigs ==
    {[interval_min_seconds |-> 0, interval_max_seconds |-> 0,
      min_publish |-> rest, lock_trigger |-> rest, process_ack |-> rest,
      tower |-> rest, gnss |-> gnss, wps |-> wps,
      enhance_loc |-> enhance, loc_cb |-> rest] :
        gnss \in BOOLEAN, wps \in BOOLEAN, enhance \in BOOLEAN, rest \in BOOLEAN}

\* The object after init(), run at uptime 0 with the stored configuration
\* `cfg`: "_last_location_publish_sec = System.uptime() - interval_min".
\* init() registers the configuration object, the commands and the sleep
\* hooks and writes no other member.  A specification without the sleep
\* hooks, where nothing reads _config_state_loop_safe before loop() writes
\* it, starts with that member all off.
Booted(cfg) ==
    /\ Constructed
    /\ now = 0
    /\ connected = FALSE
    /\ _config_state = cfg
    /\ _config_state_loop_safe \in UnsetConfigs
    /\ _last_location_publish_sec = 0 - cfg.interval_min_seconds

(***************************************************************************)
(* Spec: the whole program, every context and every input                  *)
(***************************************************************************)
Init ==
    /\ \E ack \in BOOLEAN, gnss \in BOOLEAN, iv \in {<<0, 0>>, <<1, 2>>} :
          Booted(Config(iv[1], iv[2], ack, gnss, TRUE))
    /\ link = "flaky"
    /\ radius \in {0, 1}
    /\ sleepDisabled \in BOOLEAN
    /\ fullWakeCycle \in BOOLEAN

Next ==
    \/ LoopStart
    \/ LoopRetry
    \/ LoopRadius
    \/ LoopLock
    \/ LoopLockTrigger
    \/ LoopLockDone
    \/ LoopEvaluate
    \/ LoopDecide
    \/ LoopStale
    \/ LoopStaleCall
    \/ LoopStaleClear
    \/ LoopStaleFree
    \/ LoopBuild
    \/ LoopTrigTest
    \/ LoopDrain
    \/ LoopTower
    \/ LoopWps
    \/ LoopWifiScan
    \/ LoopAnchor
    \/ LoopSend
    \/ LoopMark
    \/ TriggerEnter
    \/ TriggerLeave
    \/ RegLocPubCallback
    \/ Complete
    \/ CompleteClear
    \/ EnterConfig
    \/ SetInterval
    \/ SetBool
    \/ SetRadius
    \/ ExitConfig
    \/ OnSleepPrepare
    \/ OnSleepCancel
    \/ onSleep(MaxTime)
    \/ OnWake
    \/ OnSleepState

Spec == Init /\ [][Next]_vars

(***************************************************************************)
(* SpecTrig: loop() against concurrent callers of triggerLocPub.  No       *)
(* interval is configured, GNSS is disabled, the link is up and the        *)
(* transport refuses every send, so that only the trigger set moves.       *)
(***************************************************************************)
TrigInit ==
    /\ Booted(Config(0, 0, FALSE, FALSE, FALSE))
    /\ link = "up"
    /\ _config_state_loop_safe = ZeroConfig
    /\ radius = 0
    /\ sleepDisabled = TRUE
    /\ fullWakeCycle = TRUE

\* With the lock trigger and enhance_loc off in the initial configuration and
\* no configuration write, LoopLock goes to "evaluate" and buildPublish to
\* "anchor": the lock trigger steps and the enrichment steps cannot occur.
TrigNext ==
    \/ LoopStart
    \/ LoopRadius
    \/ LoopLock
    \/ LoopEvaluate
    \/ LoopDecide
    \/ LoopStale
    \/ LoopBuild
    \/ LoopTrigTest
    \/ LoopDrain
    \/ LoopAnchor
    \/ SchedLoopSend
    \/ LoopMark
    \/ TriggerEnter
    \/ TriggerLeave

SpecTrig == TrigInit /\ [][TrigNext]_vars

(***************************************************************************)
(* SpecBusy: loop() against the transport, without completion callbacks:   *)
(* every send outcome, every completion, a link that comes and goes.       *)
(* Reports of type NORMAL are requested by the application between ticks, *)
(* GNSS is disabled.                                                       *)
(***************************************************************************)
BusyInit ==
    /\ \E ack \in BOOLEAN : Booted(Config(0, 0, ack, FALSE, FALSE))
    /\ link = "flaky"
    /\ _config_state_loop_safe = ZeroConfig
    /\ radius = 0
    /\ sleepDisabled = TRUE
    /\ fullWakeCycle = TRUE

\* triggerLocPub(type, "user") called from the application thread between
\* two ticks, the type drawn from `types`
RequestOf(types) == \E type \in types :
    /\ pc = "idle"
    /\ CanLock({})
    /\ ~Matched(_pending_triggers, "user") \/ (type = "IMMEDIATE" /\ ~_pending_immediate)
    /\ _pending_triggers' = TrigAppend(_pending_triggers, "user")
    /\ _pending_immediate' = (_pending_immediate \/ type = "IMMEDIATE")
    /\ obs' = [obs EXCEPT !.reqSince = @ \cup {"user"}]
    /\ UNCHANGED <<slotVars, wpsVars, sleepVars, cfgVars, envVars, schedVars, mutex, callers, retryVars, loopVars>>

RequestIdle == RequestOf({"NORMAL", "IMMEDIATE"})

RequestNormal == RequestOf({"NORMAL"})

\* With the lock trigger and enhance_loc off in the initial configuration and
\* no configuration write, LoopLock goes to "evaluate" and buildPublish to
\* "anchor": the lock trigger steps and the enrichment steps cannot occur.
BusyNext ==
    \/ LoopStart
    \/ LoopRetry
    \/ LoopRadius
    \/ LoopLock
    \/ LoopEvaluate
    \/ LoopDecide
    \/ LoopStale
    \/ LoopStaleClear
    \/ LoopStaleFree
    \/ LoopBuild
    \/ LoopTrigTest
    \/ LoopDrain
    \/ LoopAnchor
    \/ LoopSend
    \/ LoopMark
    \/ RequestNormal
    \/ Complete
    \/ CompleteClear

SpecBusy == BusyInit /\ [][BusyNext]_vars

(***************************************************************************)
(* SpecRetry: the same with completion callbacks registered by the         *)
(* application, on a link that stays up.                                   *)
(***************************************************************************)
RetryInit ==
    /\ Booted(Config(0, 0, FALSE, FALSE, FALSE))
    /\ link = "up"
    /\ _config_state_loop_safe = ZeroConfig
    /\ radius = 0
    /\ sleepDisabled = TRUE
    /\ fullWakeCycle = TRUE

\* With the lock trigger and enhance_loc off in the initial configuration and
\* no configuration write, LoopLock goes to "evaluate" and buildPublish to
\* "anchor": the lock trigger steps and the enrichment steps cannot occur.
RetryNext ==
    \/ BusyNext
    \/ LoopStaleCall
    \/ RegLocPubCallback

SpecRetry == RetryInit /\ [][RetryNext]_vars

(***************************************************************************)
(* SpecCb: SpecRetry over fewer ticks, the application asking for reports  *)
(* of type NORMAL                                                          *)
(***************************************************************************)
CbLoopStart == LoopBegin(CbMaxTime)

\* With the lock trigger and enhance_loc off in the initial configuration and
\* no configuration write, LoopLock goes to "evaluate" and buildPublish to
\* "anchor": the lock trigger steps and the enrichment steps cannot occur.
CbNext ==
    \/ CbLoopStart
    \/ LoopRetry
    \/ LoopRadius
    \/ LoopLock
    \/ LoopEvaluate
    \/ LoopDecide
    \/ LoopStale
    \/ LoopStaleCall
    \/ LoopStaleClear
    \/ LoopStaleFree
    \/ LoopBuild
    \/ LoopTrigTest
    \/ LoopDrain
    \/ LoopAnchor
    \/ LoopSend
    \/ LoopMark
    \/ RequestNormal
    \/ Complete
    \/ CompleteClear
    \/ RegLocPubCallback

SpecCb == RetryInit /\ [][CbNext]_vars

(***************************************************************************)
(* SpecWps: the call of buildWpsInfo in buildPublish on every byte budget   *)
(* the tower block can leave, wrapped ones included, and every scan result *)
(***************************************************************************)
\* the smallest budget left to the WiFi block, below zero: a writer filled
\* to its capacity less the bytes of the tower block
WpsMinSize == 0 - (EnrichMaxData + EnrichMaxTower)

WpsInit ==
    /\ \E on \in BOOLEAN :
          /\ _config_state = [ZeroConfig EXCEPT !.enhance_loc = TRUE, !.wps = on]
          /\ _config_state_loop_safe = _config_state
    /\ \E size \in WpsMinSize..WpsMaxSize :
          enrich = [NoEnrich EXCEPT !.wpsSize = size]
    /\ wpsIn = [size |-> 0, scan |-> 0]
    /\ wpsList \in {<<>>, WifiScan(1)}
    /\ wpsOut = NoWps
    /\ pc = "wifi"
    /\ _earlyWake = 0
    /\ wakeReq = <<>>
    /\ gnssReq = "none"
    /\ _loopSampleTick = 0
    /\ _config_state_shadow = ZeroConfig
    /\ txn = "none"
    /\ now = 0
    /\ connected = TRUE
    /\ link = "up"
    /\ radius = 0
    /\ sleepDisabled = TRUE
    /\ fullWakeCycle = TRUE
    /\ _last_location_publish_sec = 0
    /\ _monotonic_publish_sec = 0
    /\ _newMonotonic = FALSE
    /\ _first_publish = TRUE
    /\ _pending_first_publish = FALSE
    /\ _gnssStartedSec = 0
    /\ _nextEarlyWake = 0
    /\ _firstLockSec = 0
    /\ _lastGnssState = "OFF"
    /\ _pending_triggers = <<>>
    /\ _pending_immediate = FALSE
    /\ mutex = {}
    /\ callers = [c \in Callers |-> NoCall]
    /\ location_publish_retry_str = NoPayload
    /\ writerBuf = Report(0, <<>>)
    /\ inflight = {}
    /\ locPubCallbacks = <<>>
    /\ pendingLocPubCallbacks = <<>>
    /\ publishReason = NoResult
    /\ locationStatus = "OFF"
    /\ SlotUnused
    /\ obs = ObsInit

WpsNext == LoopWps \/ LoopWifiScan

SpecWps == WpsInit /\ [][WpsNext]_vars

(***************************************************************************)
(* SpecSleep: loop(), the application, the completions and the sleep hooks *)
(* with sleep enabled, GNSS disabled.  The link comes and goes from tick to *)
(* tick, the transport is never busy and completes a request it took with  *)
(* SUCCESS, FAILURE or TIMEOUT, with or without the request text; a failed *)
(* request that was saved is sent again by the next connected tick.  The   *)
(* application asks for reports of type NORMAL, and every sleep lasts a    *)
(* second or more.                                                         *)
(***************************************************************************)
SleepInit ==
    /\ Booted(Config(2, 2, FALSE, FALSE, FALSE))
    /\ link = "flaky"
    /\ radius = 0
    /\ sleepDisabled = FALSE
    /\ fullWakeCycle = TRUE

SleepLoopStart == LoopBegin(SleepMaxTime)

SleepLoopSend == LoopSendWith({"OK", "ERR"})

OnSleep == onSleepFor(1, SleepMaxTime)

\* Sleep is enabled and enhance_loc off, with no configuration write:
\* LoopLock goes to "evaluate", the lock trigger steps and the enrichment
\* steps cannot occur.
SleepNext ==
    \/ SleepLoopStart
    \/ LoopRetry
    \/ LoopRadius
    \/ LoopLock
    \/ LoopEvaluate
    \/ LoopDecide
    \/ LoopStale
    \/ LoopBuild
    \/ LoopTrigTest
    \/ LoopDrain
    \/ LoopAnchor
    \/ SleepLoopSend
    \/ LoopMark
    \/ RequestNormal
    \/ Complete
    \/ CompleteClear
    \/ OnSleepPrepare
    \/ OnSleepCancel
    \/ OnSleep
    \/ OnWake
    \/ OnSleepState

SpecSleep == SleepInit /\ [][SleepNext]_vars

(***************************************************************************)
(* SpecSlot: the retry buffer under concurrency.  location_publish, the    *)
(* retry test and the stale branch of loop() and location_publish_cb run   *)
(* statement by statement.  The handler runs in the transport's context    *)
(* and its steps come between any two steps of loop(), except that the     *)
(* transport delivers a completion holding the cloud service lock, the     *)
(* lock location_publish takes at its first statement and releases at its  *)
(* last.  The link comes and goes, every send outcome and every completion *)
(* occurs, GNSS is disabled.                                               *)
(***************************************************************************)
SlotInit ==
    /\ Booted(Config(0, 0, FALSE, FALSE, FALSE))
    /\ link = "flaky"
    /\ _config_state_loop_safe = ZeroConfig
    /\ radius = 0
    /\ sleepDisabled = TRUE
    /\ fullWakeCycle = TRUE

SlotLoopStart == LoopBegin(SlotMaxTime)

\* CloudService::lock() by context ctx: free, or held by ctx itself
CloudLockFree(ctx) == cloudLock \in {"none", ctx}

\* "cloud_service.lock();" at the head of location_publish, called for a
\* retry or for a new report
SlotPubLock ==
    /\ pc \in {"retry", "send"}
    /\ CloudLockFree("loop")
    /\ cloudLock' = "loop"
    /\ pubCall' = [rval |-> "NONE", ret |-> IF pc = "retry" THEN "sample" ELSE "mark"]
    /\ pc' = "pubsend"
    /\ UNCHANGED <<cb, issueLeft, wpsVars, sleepVars, cfgVars, envVars, schedVars, trigVars,
                   retryVars, publishReason, locationStatus, obs>>

\* "rval = cloud_service.send(...)": the buffered payload if there is one,
\* the writer's buffer otherwise
SlotPubSend == \E rval \in {"OK", "EBUSY", "ERR"} :
    /\ pc = "pubsend"
    /\ rval = "OK" => Cardinality(inflight) < MaxInFlight
    /\ inflight' = IF rval = "OK" THEN inflight \cup {SendPayload} ELSE inflight
    /\ pubCall' = [pubCall EXCEPT !.rval = rval]
    /\ pc' = "pubtest"
    /\ UNCHANGED <<cloudLock, cb, issueLeft, wpsVars, sleepVars, cfgVars, envVars, schedVars,
                   trigVars, location_publish_retry_str, writerBuf, locPubCallbacks,
                   pendingLocPubCallbacks, publishReason, locationStatus, obs>>

\* "if(rval == -EBUSY) { if(!location_publish_retry_str)"
SlotPubTest ==
    /\ pc = "pubtest"
    /\ pc' = IF pubCall.rval # "EBUSY" THEN "pubelse"
             ELSE IF location_publish_retry_str = NoPayload THEN "pubsave"
             ELSE "pubunlock"
    /\ UNCHANGED <<slotVars, wpsVars, sleepVars, cfgVars, envVars, schedVars, trigVars,
                   retryVars, publishReason, locationStatus, obs>>

\* "location_publish_retry_str = (char *) malloc(len);" and the copy of the
\* writer's buffer, or the callbacks when the allocation fails
SlotPubSave == \E allocOk \in BOOLEAN :
    /\ pc = "pubsave"
    /\ location_publish_retry_str' = IF allocOk THEN writerBuf ELSE NoPayload
    /\ pendingLocPubCallbacks' = IF allocOk THEN pendingLocPubCallbacks ELSE <<>>
    /\ obs' = IF allocOk THEN obs
              ELSE [obs EXCEPT
                      !.cbLog = IssueLog(@, pendingLocPubCallbacks, "FAILURE"),
                      !.cbAbout = IssueLog(@, pendingLocPubCallbacks, writerBuf)]
    /\ pc' = "pubunlock"
    /\ UNCHANGED <<slotVars, wpsVars, sleepVars, cfgVars, envVars, schedVars, trigVars,
                   writerBuf, inflight, locPubCallbacks, publishReason,
                   locationStatus>>

\* the else branch: the callbacks on a fatal error, and the buffer freed
SlotPubElse ==
    LET issue == pubCall.rval = "ERR" IN
    /\ pc = "pubelse"
    /\ pendingLocPubCallbacks' = IF issue THEN <<>> ELSE pendingLocPubCallbacks
    /\ obs' = IF ~issue THEN obs
              ELSE [obs EXCEPT
                      !.cbLog = IssueLog(@, pendingLocPubCallbacks, "FAILURE"),
                      !.cbAbout = IssueLog(@, pendingLocPubCallbacks,
                                           location_publish_retry_str)]
    /\ location_publish_retry_str' = NoPayload
    /\ pc' = "pubunlock"
    /\ UNCHANGED <<slotVars, wpsVars, sleepVars, cfgVars, envVars, schedVars, trigVars,
                   writerBuf, inflight, locPubCallbacks, publishReason,
                   locationStatus>>

\* "cloud_service.unlock();" and the return to loop()
SlotPubUnlock ==
    /\ pc = "pubunlock"
    /\ cloudLock' = "none"
    /\ pc' = pubCall.ret
    /\ pubCall' = NoPub
    /\ UNCHANGED <<cb, issueLeft, wpsVars, sleepVars, cfgVars, envVars, schedVars, trigVars,
                   retryVars, publishReason, locationStatus, obs>>

\* the transport can take the cloud service lock to deliver a completion
TransportLockFree == CloudLockFree("handler")

\* The transport, holding the cloud service lock, calls location_publish_cb
\* for the send of p: the branch on the status, with the marks a SUCCESS
\* clears
SlotCbEnter == \E p \in inflight, status \in {"SUCCESS", "FAILURE", "TIMEOUT"},
                  withText \in BOOLEAN :
    /\ cb.pc = "idle"
    /\ TransportLockFree
    /\ cloudLock' = "handler"
    /\ inflight' = inflight \ {p}
    /\ _first_publish' = IF status = "SUCCESS" THEN FALSE ELSE _first_publish
    /\ _pending_first_publish' =
          IF status = "SUCCESS" THEN FALSE ELSE _pending_first_publish
    /\ cb' = [pc |-> IF status = "FAILURE" THEN "test" ELSE "issue",
              p |-> p, status |-> status,
              text |-> IF withText THEN p ELSE NoPayload]
    /\ UNCHANGED <<pubCall, issueLeft, wpsVars, sleepVars, cfgVars, envVars,
                   _last_location_publish_sec, _monotonic_publish_sec, _newMonotonic,
                   _gnssStartedSec, _nextEarlyWake, _firstLockSec, _lastGnssState,
                   trigVars, location_publish_retry_str, writerBuf, locPubCallbacks,
                   pendingLocPubCallbacks, loopVars, obs>>

\* the test without the emptiness condition
SaveTestAny(req_event) == req_event # NoPayload

\* "if(req_event && !location_publish_retry_str)"
SaveTest(req_event) ==
    /\ req_event # NoPayload
    /\ location_publish_retry_str = NoPayload

SlotCbTest ==
    /\ cb.pc = "test"
    /\ cb' = [cb EXCEPT !.pc = IF SaveTest(cb.text) THEN "save" ELSE "issue"]
    /\ UNCHANGED <<cloudLock, pubCall, issueLeft, wpsVars, sleepVars, cfgVars, envVars, schedVars,
                   trigVars, retryVars, loopVars, obs>>

\* "location_publish_retry_str = (char *) malloc(len);" and the copy of the
\* request text, "issue_callbacks = false", the return and the lock released;
\* the callbacks are still to be issued when the allocation fails
SlotCbSave == \E allocOk \in BOOLEAN :
    /\ cb.pc = "save"
    /\ location_publish_retry_str' = IF allocOk THEN cb.text ELSE NoPayload
    /\ cb' = IF allocOk THEN NoCb ELSE [cb EXCEPT !.pc = "issue"]
    /\ cloudLock' = IF allocOk THEN "none" ELSE cloudLock
    /\ UNCHANGED <<pubCall, issueLeft, wpsVars, sleepVars, cfgVars, envVars, schedVars, trigVars,
                   writerBuf, inflight, locPubCallbacks, pendingLocPubCallbacks,
                   loopVars, obs>>

\* "if(issue_callbacks) issue_location_publish_callbacks(...)": the pending
\* callbacks called
SlotCbIssue ==
    /\ cb.pc = "issue"
    /\ obs' = [obs EXCEPT
          !.cbLog = IssueLog(@, pendingLocPubCallbacks, cb.status),
          !.cbAbout = IssueLog(@, pendingLocPubCallbacks, cb.p)]
    /\ cb' = [cb EXCEPT !.pc = "clear"]
    /\ UNCHANGED <<cloudLock, pubCall, issueLeft, wpsVars, sleepVars, cfgVars, envVars,
                   schedVars, trigVars, retryVars, loopVars>>

\* "pendingLocPubCallbacks.clear();", the return and the lock released
SlotCbClear ==
    /\ cb.pc = "clear"
    /\ cloudLock = "handler"
    /\ pendingLocPubCallbacks' = <<>>
    /\ cb' = NoCb
    /\ cloudLock' = "none"
    /\ UNCHANGED <<pubCall, issueLeft, wpsVars, sleepVars, cfgVars, envVars, schedVars,
                   trigVars, location_publish_retry_str, writerBuf, inflight,
                   locPubCallbacks, loopVars, obs>>

\* The lock trigger and enhance_loc are off, with no configuration write:
\* LoopLock goes to "evaluate", the lock trigger steps and the enrichment
\* steps cannot occur.
SlotNext ==
    \/ SlotLoopStart
    \/ SlotPubLock
    \/ SlotPubSend
    \/ SlotPubTest
    \/ SlotPubSave
    \/ SlotPubElse
    \/ SlotPubUnlock
    \/ LoopRadius
    \/ LoopLock
    \/ LoopEvaluate
    \/ LoopDecide
    \/ LoopStale
    \/ LoopStaleClear
    \/ LoopStaleFree
    \/ LoopBuild
    \/ LoopTrigTest
    \/ LoopDrain
    \/ LoopAnchor
    \/ LoopMark
    \/ RequestIdle
    \/ SlotCbEnter
    \/ SlotCbTest
    \/ SlotCbSave
    \/ SlotCbIssue
    \/ SlotCbClear

SpecSlot == SlotInit /\ [][SlotNext]_vars

(***************************************************************************)
(* SpecWake: ticks and sleep hooks over several wake cycles, GNSS on, the  *)
(* link up, the transport refusing every send.                             *)
(***************************************************************************)
WakeInit ==
    /\ Booted(Config(0, 0, FALSE, TRUE, TRUE))
    /\ link = "up"
    /\ radius = 0
    /\ sleepDisabled = FALSE
    /\ fullWakeCycle = TRUE

WakeLoopStart == LoopBegin(WakeMaxTime)

WakeOnSleep == onSleep(WakeMaxTime)

\* Sleep is enabled and enhance_loc off, with no configuration write:
\* LoopLock goes to "evaluate" and buildPublish to "anchor", the lock trigger
\* steps and the enrichment steps cannot occur.
WakeNext ==
    \/ WakeLoopStart
    \/ LoopRadius
    \/ LoopLock
    \/ LoopEvaluate
    \/ LoopDecide
    \/ LoopStale
    \/ LoopBuild
    \/ LoopTrigTest
    \/ LoopAnchor
    \/ SchedLoopSend
    \/ LoopMark
    \/ OnSleepPrepare
    \/ OnSleepCancel
    \/ WakeOnSleep
    \/ OnWake
    \/ OnSleepState

SpecWake == WakeInit /\ [][WakeNext]_vars

(***************************************************************************)
(* SpecEnrich: buildPublish from the test of the trigger list to its end,   *)
(* with nothing pending: the enrichment blocks on every fill level of the  *)
(* writer, every size of the tower block and every scan result             *)
(***************************************************************************)
EnrichInit ==
    /\ \E enhance \in BOOLEAN, tower \in BOOLEAN, wps \in BOOLEAN :
          /\ _config_state = [ZeroConfig EXCEPT !.enhance_loc = enhance,
                                                !.tower = tower, !.wps = wps]
          /\ _config_state_loop_safe = _config_state
    /\ enrich = NoEnrich
    /\ wpsList = <<>>
    /\ wpsIn = [size |-> 0, scan |-> 0]
    /\ wpsOut = NoWps
    /\ pc = "trigtest"
    /\ _earlyWake = 0
    /\ wakeReq = <<>>
    /\ gnssReq = "none"
    /\ _loopSampleTick = 0
    /\ _config_state_shadow = ZeroConfig
    /\ txn = "none"
    /\ now = 0
    /\ connected = TRUE
    /\ link = "up"
    /\ radius = 0
    /\ sleepDisabled = TRUE
    /\ fullWakeCycle = TRUE
    /\ _last_location_publish_sec = 0
    /\ _monotonic_publish_sec = 0
    /\ _newMonotonic = FALSE
    /\ _first_publish = TRUE
    /\ _pending_first_publish = FALSE
    /\ _gnssStartedSec = 0
    /\ _nextEarlyWake = 0
    /\ _firstLockSec = 0
    /\ _lastGnssState = "OFF"
    /\ _pending_triggers = <<>>
    /\ _pending_immediate = FALSE
    /\ mutex = {}
    /\ callers = [c \in Callers |-> NoCall]
    /\ location_publish_retry_str = NoPayload
    /\ writerBuf = Report(0, <<>>)
    /\ inflight = {}
    /\ locPubCallbacks = <<>>
    /\ pendingLocPubCallbacks = <<>>
    /\ publishReason = NoResult
    /\ locationStatus = "OFF"
    /\ SlotUnused
    /\ obs = ObsInit

EnrichNext == LoopTrigTest \/ LoopTower \/ LoopWps \/ LoopWifiScan

SpecEnrich == EnrichInit /\ [][EnrichNext]_vars

(***************************************************************************)
(* SpecPrep: onSleepPrepare on the states the scheduler can leave behind:  *)
(* the state after init(); the anchor at the last publish (bootstrap,      *)
(* TRIGGERS, IMMEDIATE); or, after a TIME publish, the anchor one max      *)
(* interval or more after an earlier anchor and no later than the last     *)
(* publish                                                                 *)
(***************************************************************************)
PrepIntervals == {<<2, 4>>, <<0, 3>>}

PrepInit ==
    /\ now \in 0..PrepMaxNow
    /\ \E iv \in PrepIntervals :
          /\ _config_state = Config(iv[1], iv[2], FALSE, TRUE, TRUE)
          /\ _config_state_loop_safe = Config(iv[1], iv[2], FALSE, TRUE, TRUE)
    /\ \/ /\ _first_publish = TRUE
          /\ _monotonic_publish_sec = 0
          /\ _last_location_publish_sec = 0 - _config_state.interval_min_seconds
       \/ /\ _first_publish = FALSE
          /\ _monotonic_publish_sec \in 1..now
          /\ _last_location_publish_sec \in _monotonic_publish_sec..now
          /\ \/ _last_location_publish_sec = _monotonic_publish_sec
             \/ /\ _config_state.interval_max_seconds > 0
                /\ _monotonic_publish_sec > _config_state.interval_max_seconds
    /\ _pending_first_publish = FALSE
    /\ _pending_triggers \in {<<>>, <<"user">>}
    /\ _firstLockSec \in 0..now
    /\ fullWakeCycle \in BOOLEAN
    /\ _earlyWake \in 0..ConnectingTime
    /\ _nextEarlyWake = _earlyWake
    /\ wakeReq = <<>>
    /\ gnssReq = "none"
    /\ _loopSampleTick = 0
    /\ pc = "prepare"
    /\ _config_state_shadow = ZeroConfig
    /\ txn = "none"
    /\ connected = TRUE
    /\ link = "up"
    /\ radius = 0
    /\ sleepDisabled = FALSE
    /\ _newMonotonic = FALSE
    /\ _gnssStartedSec = 0
    /\ _lastGnssState = "OFF"
    /\ _pending_immediate = FALSE
    /\ mutex = {}
    /\ callers = [c \in Callers |-> NoCall]
    /\ location_publish_retry_str = NoPayload
    /\ writerBuf = NoPayload
    /\ inflight = {}
    /\ locPubCallbacks = <<>>
    /\ pendingLocPubCallbacks = <<>>
    /\ publishReason = NoResult
    /\ locationStatus = "OFF"
    /\ WpsUnused
    /\ SlotUnused
    /\ obs = ObsInit

\* the sleep service calls the prepare hook; the last wake was at or before
\* the first lock
Prepare == \E sec \in 0..now :
    /\ pc = "prepare"
    /\ _firstLockSec # 0 => sec <= _firstLockSec
    /\ onSleepPrepare(1000 * sec)
    /\ pc' = "prepared"

PrepNext == Prepare

SpecPrep == PrepInit /\ [][PrepNext]_vars

(***************************************************************************)
(* SpecSched: the scheduler alone over a longer time, with intervals       *)
(***************************************************************************)
SchedIntervals == {<<0, 1>>, <<1, 2>>, <<2, 2>>}

SchedInit ==
    /\ \E iv \in SchedIntervals, gnss \in BOOLEAN :
          Booted(Config(iv[1], iv[2], FALSE, gnss, TRUE))
    /\ link = "up"
    /\ _config_state_loop_safe = ZeroConfig
    /\ radius = 0
    /\ sleepDisabled = TRUE
    /\ fullWakeCycle \in BOOLEAN

SchedLoopStart == LoopBegin(SchedMaxTime)

\* enhance_loc is off in the initial configuration and never written:
\* buildPublish goes to "anchor" and the enrichment steps cannot occur.
SchedNext ==
    \/ SchedLoopStart
    \/ LoopRadius
    \/ LoopLock
    \/ LoopLockTrigger
    \/ LoopLockDone
    \/ LoopEvaluate
    \/ LoopDecide
    \/ LoopStale
    \/ LoopBuild
    \/ LoopTrigTest
    \/ LoopDrain
    \/ LoopAnchor
    \/ SchedLoopSend
    \/ LoopMark

SpecSched == SchedInit /\ [][SchedNext]_vars

(***************************************************************************)
(* SpecImm: the decision of loop() under requests of the application,      *)
(* normal and immediate, in every fix state, with and without intervals,   *)
(* on a link that comes and goes.  The transport refuses every send.       *)
(***************************************************************************)
ImmIntervals == {<<0, 0>>, <<1, 2>>}

ImmInit ==
    /\ \E iv \in ImmIntervals, ack \in BOOLEAN, gnss \in BOOLEAN :
          Booted(Config(iv[1], iv[2], ack, gnss, TRUE))
    /\ link = "flaky"
    /\ _config_state_loop_safe = ZeroConfig
    /\ radius = 0
    /\ sleepDisabled = TRUE
    /\ fullWakeCycle \in BOOLEAN

ImmLoopStart == LoopBegin(ImmMaxTime)

\* enhance_loc is off in the initial configuration and never written:
\* buildPublish goes to "anchor" and the enrichment steps cannot occur.
ImmNext ==
    \/ ImmLoopStart
    \/ LoopRadius
    \/ LoopLock
    \/ LoopLockTrigger
    \/ LoopLockDone
    \/ LoopEvaluate
    \/ LoopDecide
    \/ LoopStale
    \/ LoopBuild
    \/ LoopTrigTest
    \/ LoopDrain
    \/ LoopAnchor
    \/ SchedLoopSend
    \/ LoopMark
    \/ RequestIdle

SpecImm == ImmInit /\ [][ImmNext]_vars

(***************************************************************************)
(* SpecConfig: configuration transactions on the location object           *)
(***************************************************************************)
ConfigInit ==
    /\ \E min \in IntervalValues, max \in IntervalValues :
          min <= max /\ Booted(Config(min, max, TRUE, TRUE, TRUE))
    /\ link = "up"
    /\ _config_state_loop_safe = ZeroConfig
    /\ radius = 0
    /\ sleepDisabled = TRUE
    /\ fullWakeCycle = TRUE

ConfigNext == EnterConfig \/ SetInterval \/ SetBool \/ SetRadius \/ ExitConfig

SpecConfig == ConfigInit /\ [][ConfigNext]_vars

(***************************************************************************)
(* SpecEval: evaluatePublish as a function of its inputs                   *)
(***************************************************************************)
EvalIntervals == {<<60, 600>>, <<0, 600>>, <<0, 30>>, <<0, 0>>}

\* The state evaluatePublish reads, set to one input: the anchor at uptime
\* 0, the last publish at uptime 0 or where init() puts it (uptime minus
\* interval_min), the evaluation at uptime `now`.  The first-publish
\* flags take the three values the program gives them.
EvalInit ==
    /\ now \in 0..EvalMaxNow
    /\ _nextEarlyWake \in 0..EvalMaxLead
    /\ _pending_triggers \in {<<>>, <<"user">>}
    /\ _pending_immediate \in BOOLEAN
    /\ \E f \in {<<TRUE, FALSE>>, <<TRUE, TRUE>>, <<FALSE, FALSE>>} :
          _first_publish = f[1] /\ _pending_first_publish = f[2]
    /\ \E iv \in EvalIntervals :
          /\ _config_state = Config(iv[1], iv[2], TRUE, TRUE, TRUE)
          /\ _config_state_loop_safe = Config(iv[1], iv[2], TRUE, TRUE, TRUE)
    /\ _config_state_shadow = ZeroConfig
    /\ txn = "none"
    /\ connected = TRUE
    /\ link = "up"
    /\ radius = 0
    /\ sleepDisabled = TRUE
    /\ fullWakeCycle = TRUE
    /\ _last_location_publish_sec \in {0, 0 - _config_state.interval_min_seconds}
    /\ _monotonic_publish_sec = 0
    /\ _newMonotonic = FALSE
    /\ _gnssStartedSec = 0
    /\ _firstLockSec = 0
    /\ _lastGnssState = "OFF"
    /\ mutex = {}
    /\ callers = [c \in Callers |-> NoCall]
    /\ location_publish_retry_str = NoPayload
    /\ writerBuf = NoPayload
    /\ inflight = {}
    /\ locPubCallbacks = <<>>
    /\ pendingLocPubCallbacks = <<>>
    /\ pc = "input"
    /\ publishReason = NoResult
    /\ locationStatus = "OFF"
    /\ WpsUnused
    /\ _earlyWake = 0
    /\ wakeReq = <<>>
    /\ gnssReq = "none"
    /\ _loopSampleTick = 0
    /\ SlotUnused
    /\ obs = ObsInit

Evaluate ==
    /\ pc = "input"
    /\ publishReason' = EvaluatePublish(_pending_triggers)
    /\ pc' = "evaluated"
    /\ UNCHANGED <<slotVars, wpsVars, sleepVars, cfgVars, envVars, schedVars, trigVars, retryVars, locationStatus, obs>>

EvalNext == Evaluate

SpecEval == EvalInit /\ [][EvalNext]_vars

(***************************************************************************)
(* Properties                                                              *)
(***************************************************************************)

\* C1 (SpecSched): with interval_max > 0, interval_min <= interval_max and
\* the link up on every tick, whenever loop() returns after a report has
\* been composed, no more than interval_max + LockTimeoutSec seconds plus
\* one tick (the longest time between two samples and the longest
\* buildPublish) have passed since the monotonic anchor of the latest
\* report, whatever fix states the location source goes through.
C1_MaxIntervalLiveness ==
    (/\ pc = "idle"
     /\ writerBuf # NoPayload
     /\ _config_state.interval_max_seconds > 0)
    => now - _monotonic_publish_sec
         <= _config_state.interval_max_seconds + LockTimeoutSec
              + LoopMaxStep + BuildMaxDelay

\* the inputs of C3: a minimum interval, no immediate request, the
\* first-publish rule not applicable
C3_Gated ==
    /\ pc = "evaluated"
    /\ _config_state.interval_min_seconds > 0
    /\ ~_pending_immediate
    /\ ~FirstPublishRule
    /\ U32Lt(now - _last_location_publish_sec, _config_state.interval_min_seconds)

\* C3 (SpecEval): with interval_min > 0, no immediate flag and the
\* first-publish rule not applicable, evaluatePublish does not return
\* TRIGGERS while the time since the last publish is below interval_min.
C3_MinIntervalGate == C3_Gated => publishReason.reason # "TRIGGERS"

\* a trigger pending 30 s after the last publish with interval_min = 60 and
\* an early-wake lead of 40 s: the network is asked for, nothing is published
C3_Witness ==
    /\ C3_Gated
    /\ _config_state.interval_min_seconds = 60
    /\ _pending_triggers # <<>>
    /\ now - _last_location_publish_sec = 30
    /\ _nextEarlyWake = 40
    /\ publishReason = EvaluationResults("NONE", TRUE, FALSE)

\* the inputs of C4: min 60, max 600, a trigger pending, no immediate flag,
\* the first publish done, an early-wake lead in 0..60
C4_Inputs ==
    /\ pc = "evaluated"
    /\ _config_state.interval_min_seconds = 60
    /\ _config_state.interval_max_seconds = 600
    /\ _pending_triggers # <<>>
    /\ ~_pending_immediate
    /\ ~_first_publish
    /\ _nextEarlyWake \in 0..60

\* C4 (SpecEval): with min 60, max 600, a trigger pending, no immediate flag
\* and the first publish done, at elapsed-since-last-publish = 60 - lead the
\* evaluator asks for the network, for every early-wake lead in 0..60.
C4_AnticipatoryDecision ==
    (C4_Inputs /\ now - _last_location_publish_sec = 60 - _nextEarlyWake)
    => publishReason.networkNeeded

\* the case of C8: a write transaction has exited with a non-zero status or
\* with a shadow whose minimum exceeds its maximum
C8_Rejected ==
    /\ obs.exit.valid
    /\ obs.exit.write
    /\ \/ obs.exit.status # 0
       \/ obs.exit.shadow.interval_min_seconds
            > obs.exit.shadow.interval_max_seconds

\* C8 (SpecConfig): a write transaction that exits with a non-zero status or
\* with shadow min > max returns an error and leaves every field of the
\* live config as it was before the transaction.
C8_RejectedWriteKeepsLive ==
    C8_Rejected => (obs.exit.ret # 0 /\ _config_state = obs.exit.before)

\* min = 500, max = 100 written with status 0: -EINVAL, live config kept
C8_Witness ==
    /\ C8_Rejected
    /\ obs.exit.status = 0
    /\ obs.exit.shadow.interval_min_seconds = 500
    /\ obs.exit.shadow.interval_max_seconds = 100
    /\ obs.exit.ret = -EINVAL
    /\ obs.exit.shadow # obs.exit.before
    /\ _config_state = obs.exit.before

\* C9 (SpecConfig): from a live config with min <= max, after any sequence
\* of read and write transactions the live config has
\* interval_min_seconds <= interval_max_seconds.
C9_LiveMinLeMax ==
    _config_state.interval_min_seconds <= _config_state.interval_max_seconds

\* a rejected write has left min > max in the shadow, and a later read
\* transaction has been entered and has exited with status 0 on that shadow
C9_Witness ==
    /\ txn = "none"
    /\ obs.exit.valid
    /\ ~obs.exit.write
    /\ obs.exit.status = 0
    /\ obs.exit.shadow.interval_min_seconds
         > obs.exit.shadow.interval_max_seconds
    /\ _config_state_shadow = obs.exit.shadow
    /\ C9_LiveMinLeMax

\* buildPublish is past its trig array: the report in the writer has the
\* names it will be sent with
TrigArrayDone == pc \notin {"trigtest", "drain"}

\* C2 (SpecTrig): whatever calls of triggerLocPub the concurrent callers
\* make between two compositions, the pending trigger list never holds a
\* name twice, and the trig list of the composed report holds each name
\* requested for it exactly once.
C2_TriggerDedup ==
    /\ NoDup(_pending_triggers)
    /\ NoDup(writerBuf.trig)
    /\ TrigArrayDone =>
          \A s \in obs.reqAtDrain :
             Cardinality({i \in 1..Len(writerBuf.trig) : writerBuf.trig[i] = s}) = 1

\* a caller inside triggerLocPub has found its name already pending, next
\* to another pending name
C2_Witness ==
    /\ \E c \in Callers :
          /\ callers[c] # NoCall
          /\ callers[c].matched
          /\ callers[c].s = "user"
    /\ Len(_pending_triggers) = 2
    /\ NoDup(_pending_triggers)
    /\ TrigArrayDone
    /\ obs.reqAtDrain = {"user", "motion"}
    /\ Len(writerBuf.trig) = 2

\* C5 (SpecBusy): after a busy send of a fresh report has copied it into
\* the retry buffer, the buffer holds those bytes until they are handed to
\* the transport or dropped for a new report; the send made while they are
\* buffered transmits exactly them; and after the first report a new one is
\* composed only in a tick with an immediate request, a max-interval expiry
\* or a pending trigger.
C5_BusyRetryReusesBuffer ==
    /\ obs.busy # NoPayload => location_publish_retry_str = obs.busy
    /\ obs.sent.busy # NoPayload => obs.sent.payload = obs.sent.busy
    /\ pc \in {"stale", "stalecb", "staleloop", "stalefree", "build", "trigtest",
               "drain", "anchor", "send", "mark"}
          => publishReason.reason # "NONE"
    /\ (pc \in {"stale", "stalecb", "staleloop", "stalefree", "build"}
          /\ writerBuf # NoPayload)
       => \/ publishReason.reason \in {"IMMEDIATE", "TIME"}
          \/ (publishReason.reason = "TRIGGERS" /\ _pending_triggers # <<>>)

\* a report copied on a busy send goes out unchanged at least two ticks
\* after it was composed, with no report composed since
C5_Witness ==
    /\ obs.sent.busy # NoPayload
    /\ obs.sent.rval = "OK"
    /\ obs.sent.payload = obs.sent.busy
    /\ obs.sent.payload = writerBuf
    /\ pc = "sample"
    /\ now >= writerBuf.t + 2

\* the case of C6: the latest report completed with FAILURE and was
\* captured, was resent, and the resend completed with SUCCESS, with no
\* report composed since
C6_RetrySucceeded ==
    /\ obs.trk.statuses = <<"FAILURE", "SUCCESS">>
    /\ obs.trk.captures = 1
    /\ obs.trk.sends = 2

\* C6 (SpecRetry): when a publish completes with FAILURE, is resent from
\* the retry buffer and the resend completes with SUCCESS, with no fresh
\* publish in between, every callback that was pending for that publish has
\* been invoked exactly once, with SUCCESS.
C6_CallbacksOnceAcrossRetry ==
    C6_RetrySucceeded => \A c \in obs.trk.cbs : obs.cbLog[c] = <<"SUCCESS">>

\* C7 (SpecRetry): a payload is captured for retry at most once and sent at
\* most twice: a second FAILURE completion of the same payload does not
\* capture it again.
C7_FailedPayloadRetriedOnce == obs.trk.captures <= 1 /\ obs.trk.sends <= 2

\* C10 (SpecTrig): the names pending are exactly the names requested since
\* the last drain (none lost, none left over from the report before); while
\* buildPublish has composed the report and has not yet drained, waiting for
\* the mutex or not, the report has no name; and once it is past the trig
\* array the trig list is exactly the set of names requested before the
\* drain, each once.
C10_DrainEqualsRequests ==
    /\ SeqToSet(_pending_triggers) = obs.reqSince
    /\ NoDup(writerBuf.trig)
    /\ ~TrigArrayDone => writerBuf.trig = <<>>
    /\ TrigArrayDone =>
          /\ SeqToSet(writerBuf.trig) = obs.reqAtDrain
          /\ Len(writerBuf.trig) = Cardinality(obs.reqAtDrain)

\* a report with two names has been composed and one of them, requested
\* again during the send, is pending for the next report
C10_Witness ==
    /\ pc = "send"
    /\ Len(writerBuf.trig) = 2
    /\ obs.reqAtDrain = {"user", "motion"}
    /\ _pending_triggers = <<"user">>

\* C11 (SpecRetry): a callback registered with regLocPubCallback is invoked
\* at most once, and every invocation reports the outcome of the report it
\* was swapped in for (the first one composed after its registration),
\* whatever the interleaving of publishes and completions.
C11_CallbacksBelongToNextPublish ==
    \A c \in 1..MaxCallbacks :
        /\ Len(obs.cbLog[c]) <= 1
        /\ \A i \in 1..Len(obs.cbAbout[c]) : obs.cbAbout[c][i] = obs.cbOwner[c]

\* the report in the writer was composed in the tick of the last sample
ComposedThisTick ==
    writerBuf # NoPayload /\ 1000 * writerBuf.t = _loopSampleTick

\* C12 (SpecImm): whenever loop() evaluates with the immediate flag set, the
\* decision is {IMMEDIATE, networkNeeded, no lockWait} whatever the
\* intervals, the elapsed times, the bootstrap flags and the pending
\* triggers; and a tick that ended on an IMMEDIATE decision while connected
\* has composed a report in that tick, in every fix state.
C12_ImmediatePrecedence ==
    /\ [][(pc = "evaluate" /\ pc' = "decide" /\ _pending_immediate)
            => publishReason' = EvaluationResults("IMMEDIATE", TRUE, FALSE)]_vars
    /\ [][(pc = "decide" /\ pc' # "decide" /\ publishReason.reason = "IMMEDIATE")
            => (connected' => pc' = "stale")]_vars
    /\ [](pc = "idle" /\ publishReason.reason = "IMMEDIATE" /\ connected
            => ComposedThisTick)

\* an immediate request published while the receiver reports an error, after
\* the bootstrap publish and with both intervals configured
C12_Witness ==
    /\ pc = "idle"
    /\ publishReason.reason = "IMMEDIATE"
    /\ connected
    /\ locationStatus = "ERROR"
    /\ _config_state.interval_min_seconds = 1
    /\ ~_first_publish
    /\ ComposedThisTick
    /\ now >= 2

\* C13 (SpecRetry): when a publishing tick finds the retry buffer still
\* occupied, each call the stale branch makes invokes with TIMEOUT a
\* callback pending for the buffered payload, and no other, while the
\* previous report is still in the writer and the newly registered callbacks
\* are still waiting to be swapped in; the branch ends with the pending list
\* and the buffer empty, before the new report is composed.
C13_StaleAbandonOrder ==
    [][/\ (pc \in {"stalecb", "staleloop"} /\ pc' = "staleloop")
           => /\ writerBuf' = writerBuf
              /\ locPubCallbacks' = locPubCallbacks
              /\ location_publish_retry_str' = location_publish_retry_str
              /\ \A c \in 1..MaxCallbacks :
                    IF c = Head(StaleLeft)
                    THEN /\ obs'.cbLog[c] = Append(obs.cbLog[c], "TIMEOUT")
                         /\ obs.cbOwner[c] = location_publish_retry_str
                    ELSE obs'.cbLog[c] = obs.cbLog[c]
       /\ (pc = "stalefree" /\ pc' = "build")
           => /\ location_publish_retry_str' = NoPayload
              /\ pendingLocPubCallbacks' = <<>>
              /\ writerBuf' = writerBuf
              /\ locPubCallbacks' = locPubCallbacks
              /\ obs'.cbLog = obs.cbLog]_vars

\* C14 (SpecRetry): a send that returns busy while the retry buffer is empty
\* leaves the just-composed payload in the buffer (when the copy could be
\* allocated) and invokes no callback; a busy send while a buffer exists
\* leaves the buffer unchanged; and as long as the payload saved by the busy
\* branch waits in the buffer, no callback swapped in for that payload has
\* been invoked.
C14_BusyDefersCallbacks ==
    /\ [][(pc \in {"retry", "send"} /\ pc' # pc /\ obs'.sent.rval = "EBUSY")
           => IF location_publish_retry_str # NoPayload
              THEN location_publish_retry_str' = location_publish_retry_str
              ELSE location_publish_retry_str' # NoPayload
                      => /\ location_publish_retry_str' = writerBuf
                         /\ obs'.cbLog = obs.cbLog]_vars
    /\ [](obs.busy # NoPayload
           => \A c \in 1..MaxCallbacks :
                 obs.cbOwner[c] = obs.busy => obs.cbLog[c] = <<>>)

\* C15 (SpecCb): a completion with status TIMEOUT invokes every pending
\* callback with TIMEOUT in that handler call and leaves the retry buffer
\* exactly as it was, with or without request text; the handler's last
\* statement empties the pending list and leaves the buffer alone too.
C15_TimeoutIsFinal ==
    [][/\ (\E p \in inflight, withText \in BOOLEAN, allocOk \in BOOLEAN :
               CompleteWith(p, "TIMEOUT", withText, allocOk))
           => /\ location_publish_retry_str' = location_publish_retry_str
              /\ obs'.cbLog = IssueLog(obs.cbLog, pendingLocPubCallbacks, "TIMEOUT")
              /\ cb'.pc = "clear"
       /\ (cb.pc = "clear" /\ cb'.pc = "idle")
           => /\ location_publish_retry_str' = location_publish_retry_str
              /\ pendingLocPubCallbacks' = <<>>]_vars

\* the latest report timed out while an older payload waits in the retry
\* buffer: its callback has been told TIMEOUT and the buffer is still there
C15_Witness ==
    /\ obs.trk.statuses = <<"TIMEOUT">>
    /\ obs.trk.cbs = {1}
    /\ obs.cbLog[1] = <<"TIMEOUT">>
    /\ pendingLocPubCallbacks = <<>>
    /\ location_publish_retry_str # NoPayload
    /\ location_publish_retry_str # obs.trk.p

C17_WifiEntryBound ==
    pc = "anchor" =>
       /\ wpsOut.entries # <<>> =>
             ~U32Gt(ObjectEstimateWpsHeaderSize
                       + Len(wpsOut.entries) * ObjectEstimateWpsDataSize,
                    wpsIn.size)
       /\ (\/ U32Ge(ObjectEstimateWpsHeaderSize, wpsIn.size)
           \/ U32Lt(wpsIn.size - ObjectEstimateWpsHeaderSize,
                    ObjectEstimateWpsDataSize)
           \/ wpsIn.scan = 0) => wpsOut = NoWps

\* a scan that found more access points than the budget pays for: two
\* entries written, the rest cut
C17_Witness ==
    /\ pc = "anchor"
    /\ Len(wpsOut.entries) = 2
    /\ Len(wpsList) = 3
    /\ wpsIn.size < ObjectEstimateWpsHeaderSize + 3 * ObjectEstimateWpsDataSize

\* C18 (SpecBusy): the send loop() issues right after buildPublish hands the
\* transport the report composed in that tick, at whatever point of the tick
\* the completion handler ran.
C18_FreshPublishSendsFresh ==
    [][(pc = "send" /\ pc' = "mark") => obs'.sent.payload = writerBuf]_vars

\* C19 (SpecImm): every step that composes a report moves the anchor by the
\* rule of the decision taken in that tick: a TIME decision that is not the
\* bootstrap publish adds interval_max_seconds to it, a TRIGGERS or
\* IMMEDIATE decision and the bootstrap publish set it to the current time,
\* whatever happened in the ticks before.
C19_AnchorUpdateRule ==
    [][(pc = "anchor" /\ pc' = "send")
        => IF publishReason.reason = "TIME" /\ ~FirstPublishRule
           THEN _monotonic_publish_sec' =
                   _monotonic_publish_sec + _config_state.interval_max_seconds
           ELSE _monotonic_publish_sec' = now]_vars

\* the inputs of C20: a max interval configured, no immediate flag, the
\* first publish done
C20_Inputs ==
    /\ pc = "evaluated"
    /\ _config_state.interval_max_seconds > 0
    /\ ~_pending_immediate
    /\ ~_first_publish

\* C20 (SpecEval): on these inputs the evaluator asks for the network
\* whenever the time since the anchor has reached max(0, interval_max -
\* lead); with a lead of interval_max or more, at every elapsed time.
C20_LeadFlooredAtZero ==
    LET max   == _config_state.interval_max_seconds
        floor == IF max > _nextEarlyWake THEN max - _nextEarlyWake ELSE 0
    IN  (C20_Inputs /\ U32Ge(now - _monotonic_publish_sec, floor))
           => publishReason.networkNeeded

\* C21 (SpecBusy): a tick that resent the buffered payload composes no new
\* report: when loop() has composed a report and is about to send it, the
\* last send was not a resend of this same tick.
C21_ResendExcludesCompose ==
    pc = "send"
       => ~(obs.sent.tick = _loopSampleTick /\ obs.sent.buffer # NoPayload)

\* the deadline of C22: anchor + interval_max with no trigger pending, the
\* earlier of last publish + interval_min and anchor + interval_max with
\* triggers pending
C22_Deadline ==
    LET byMax == _monotonic_publish_sec + _config_state.interval_max_seconds
        byMin == _last_location_publish_sec + _config_state.interval_min_seconds
    IN  IF _pending_triggers = <<>> THEN byMax ELSE Min(byMin, byMax)

\* C22 (SpecPrep): after the first publish, the wake time onSleepPrepare
\* leaves requested is no later than that deadline, and when the
\* lead-adjusted wake time is in the past the last request is wake time 0.
C22_NeverOversleeps ==
    (pc = "prepared" /\ ~_first_publish)
       => /\ wakeReq[Len(wakeReq)] <= C22_Deadline
          /\ TimeInPast(wakeReq[1]) => wakeReq[Len(wakeReq)] = 0

\* C23 (SpecPrep): a prepare hook that runs in a full wake cycle with no
\* first lock captured, or in a non-full wake cycle with no learned lead,
\* stores the connect timeout as the early-wake lead.
C23_LeadDefaultsToConnectTimeout ==
    (/\ pc = "prepared"
     /\ \/ fullWakeCycle /\ _firstLockSec = 0
        \/ ~fullWakeCycle /\ _earlyWake = 0)
       => _nextEarlyWake = ConnectingTime

\* C24 (SpecSched): with the link up, at the end of every tick either the
\* bootstrap report has been composed or the network was enabled no more
\* than the connect timeout ago, whatever fix states the location source
\* has reported.
C24_BoundedBootstrapReport ==
    (pc = "idle" /\ now >= 1 /\ writerBuf = NoPayload)
       => now - _gnssStartedSec <= ConnectingTime

\* C25 (SpecBusy): whenever the evaluator is about to run and would take
\* the bootstrap branch, no report has been composed whose completion is
\* still outstanding: either nothing has been composed yet or the last
\* composed report has had a completion.  So a second bootstrap-driven
\* report cannot be sent before a completion arrives, with
\* acknowledgements on or off.
C25_NoBootstrapFlood ==
    (pc = "evaluate" /\ ~_pending_immediate /\ FirstPublishRule)
       => (obs.trk.p = NoPayload \/ obs.trk.statuses # <<>>)

\* a later tick has evaluated while the bootstrap report, composed with
\* acknowledgements on, is still in flight with no completion, and the
\* evaluator did not take the bootstrap branch
C25_Witness ==
    /\ pc = "idle"
    /\ _config_state.process_ack
    /\ obs.trk.p # NoPayload
    /\ obs.trk.p.trig = <<>>
    /\ obs.trk.p.t < now
    /\ obs.trk.p \in inflight
    /\ obs.trk.statuses = <<>>
    /\ _first_publish
    /\ publishReason.reason = "NONE"

\* C26 (SpecSched): at the end of a connected tick in which the fix state
\* was OFF and the evaluator returned TIME or TRIGGERS, a report has been
\* composed in that tick, whatever the lockWait hint was.
C26_OffRowPublishes ==
    (/\ pc = "idle"
     /\ now >= 1
     /\ connected
     /\ locationStatus = "OFF"
     /\ publishReason.reason \in {"TIME", "TRIGGERS"})
       => ComposedThisTick

\* C27 (SpecEnrich): after the enrichment part of buildPublish the budget
\* handed to the WiFi block is the budget handed to the tower block less
\* the bytes the tower block wrote, and as an unsigned number it is not
\* above the tower block's budget.
C27_BudgetOnlyShrinks ==
    (pc \in {"wifi", "scan", "anchor"} /\ _config_state_loop_safe.enhance_loc)
       => /\ enrich.wpsSize
                = enrich.towerSize
                    - (IF _config_state_loop_safe.tower THEN enrich.towerOut ELSE 0)
          /\ ~U32Gt(enrich.wpsSize, enrich.towerSize)

\* C28 (SpecConfig): after a write transaction that exits with status 0 and
\* shadow min > max, the transaction has returned an error and the radius
\* threshold of the location service is what it was when the transaction
\* was entered.
C28_RejectedWriteKeepsRadius ==
    (/\ txn = "none"
     /\ obs.exit.valid
     /\ obs.exit.write
     /\ obs.exit.status = 0
     /\ obs.exit.shadow.interval_min_seconds
          > obs.exit.shadow.interval_max_seconds)
       => (obs.exit.ret # 0 /\ radius = obs.radiusAtEnter)

C30_FirstLockOncePerCycle ==
    [][/\ (pc = "asleep" /\ pc' = "idle") => _firstLockSec' = 0
       /\ _firstLockSec' # _firstLockSec
             => \/ pc = "asleep" /\ pc' = "idle"
                \/ /\ pc = "lock"
                   /\ _firstLockSec = 0
                   /\ _lastGnssState # "ON_LOCKED_STABLE"
                   /\ locationStatus = "ON_LOCKED_STABLE"
                   /\ _firstLockSec' = now
       /\ (/\ pc = "lock"
           /\ pc' # "lock"
           /\ _firstLockSec = 0
           /\ _lastGnssState # "ON_LOCKED_STABLE"
           /\ locationStatus = "ON_LOCKED_STABLE") => _firstLockSec' = now]_vars

\* the lock was captured at an earlier tick, lost, and the fix state has
\* just changed to a stable lock again in the same wake cycle
C30_Witness ==
    /\ pc = "idle"
    /\ obs.relock
    /\ locationStatus = "ON_LOCKED_STABLE"
    /\ _firstLockSec # 0
    /\ _firstLockSec < now

\* C31 (SpecImm): at the end of a tick whose evaluation returned IMMEDIATE
\* and which composed no report, the pending-immediate flag is still set,
\* so that a later connected tick composes the report by the IMMEDIATE
\* rule.
C31_ImmediateNeverLost ==
    (/\ pc = "idle"
     /\ now >= 1
     /\ publishReason.reason = "IMMEDIATE"
     /\ ~ComposedThisTick)
       => _pending_immediate

\* C32 (SpecSched): right after a report is composed for reason TIME the
\* time elapsed since the anchor is below interval_max, so the evaluator
\* does not return TIME on the following tick.
C32_NoBackToBackTime ==
    (pc = "send" /\ publishReason.reason = "TIME")
       => U32Lt(now - _monotonic_publish_sec, _config_state.interval_max_seconds)

\* C33 (SpecImm): once a report has been composed and loop() has updated
\* the last-publish time and the anchor for it, the monotonic anchor is
\* not later than the last-publish time, so the publish variance
\* (last publish - anchor) read by onSleepPrepare is not negative.
C33_AnchorNotAhead ==
    (writerBuf # NoPayload
        /\ pc \notin {"trigtest", "drain", "tower", "wifi", "scan", "anchor"})
       => /\ ~U32Gt(_monotonic_publish_sec, _last_location_publish_sec)
          /\ _last_location_publish_sec - _monotonic_publish_sec >= 0

\* a TIME report composed one tick late: the anchor moved by interval_max
\* and is behind the publish time
C33_Witness ==
    /\ pc = "send"
    /\ publishReason.reason = "TIME"
    /\ _last_location_publish_sec = now
    /\ _monotonic_publish_sec < _last_location_publish_sec
    /\ _monotonic_publish_sec >= _config_state.interval_max_seconds + 1

==============================================================================
